---- MODULE Spec2Model ----
(***************************************************************************)
(* Model of the admin panel's WebSocket layer.                             *)
(*                                                                         *)
(*   client  src/src/services/socket.js   connection manager, request      *)
(*           correlator (pendingRequests / requestId), message listener    *)
(*   server  src/unnamed/part_002         admin_panel(): clients, ID,      *)
(*           broadcast / send, interceptConsole, wss.on("connection"),     *)
(*           _admin_websocket_functions (request dispatch, job driver)     *)
(*                                                                         *)
(* The client and the server are two programs.  SpecClient runs the        *)
(* client against every envelope a peer can deliver, SpecServer runs the   *)
(* server against every frame a peer can send; the variables of the other  *)
(* program stay at their initial value.  SpecConn and SpecObs run the      *)
(* client's connection manager alone and with its state observers,         *)
(* SpecJobs and SpecDrivers the server's job drivers; LiveConn and         *)
(* LiveJobs add the fairness of the timers.  SpecDispatch runs the         *)
(* client's subscription dispatcher, and SpecSession joins the client and  *)
(* the server by the network between them.  SpecLog runs the server's log  *)
(* history, SpecAnsi the conversion of console messages to html,           *)
(* SpecMounts the components of src/src/AdminPanel.jsx over socket.js, and *)
(* SpecPanel the ExampleButtons component with the client, the network and *)
(* the server.                                                             *)
(***************************************************************************)
EXTENDS Integers, Sequences, FiniteSets, TLC

(***************************************************************************)
(* Bounds of the model.                                                    *)
(***************************************************************************)
MaxSockets == 2      \* WebSocket objects the client creates
MaxRequests == 2     \* calls of request()
MaxConnSockets == 5  \* WebSocket objects the client creates (SpecConn)
MaxObsSockets == 2   \* WebSocket objects the client creates (SpecObs)
MaxConns == 2        \* connections the server accepts (SpecServer)
MaxID == 2           \* value of ID up to which frames and log lines arrive
MaxJobConns == 2     \* connections the server accepts (SpecJobs)
MaxDrivers == 1      \* startProcess requests (SpecJobs)
MaxDriverConns == 1  \* connections the server accepts (SpecDrivers)
MaxConcurrent == 2   \* startProcess requests (SpecDrivers)

(***************************************************************************)
(* Values shared by both programs.                                         *)
(***************************************************************************)
Null == "null"
NoId == -1           \* an envelope without an id field (msg.id undefined)

\* part_002:31-46  the request types of the protocol
typeMsgRequests ==
    {"downloadLog", "timeRequest", "getEnvValues", "setEnvValue",
     "startProcess", "test", "restartServer", "shutdownServer",
     "installAsset", "uninstallAsset", "installPatch", "uninstallPatch",
     "getUserAccounts", "getSecret", "switchDevice"}

\* part_002:53-56  the pushed types
typeMsgSubscribe == {"log", "jobProgress", "jobComplete"}

Env(t, i) == [type |-> t, id |-> i]

(***************************************************************************)
(* CLIENT  (src/src/services/socket.js)                                    *)
(***************************************************************************)
VARIABLES
    sockets,            \* readyState of every WebSocket created, in order
    socket,             \* index of the current socket, 0 = null
    reconnectTimer,     \* 0 = null, else the delay of the armed timer
    timeouts,           \* the delays of the setTimeout timers not yet fired
    delays,             \* the delays scheduled since the last "open" event
    connectionState,
    messageListeners,   \* type -> handlers in insertion order
    pendingRequests,    \* id -> promise whose resolve is stored
    requestId,
    reconnectAttempts,
    promises,           \* one record per call of request()
    unsubscribers,      \* the closures subscribe() returned, in order of the
                        \* calls: type, handler, times the closure was called
    dispatched,         \* handlers invoked by the last message event
    lastMessage,        \* the last message event: envelope, resolver found
    stateListeners,     \* the Set of connection-state handlers, in order
    lastSeen,           \* handler -> the last state it was called with
    stateCalls          \* the handler calls the last event made, in order

connVars == <<sockets, socket, reconnectTimer, connectionState,
              reconnectAttempts, timeouts, delays>>
obsVars == <<stateListeners, lastSeen, stateCalls>>
corrVars == <<pendingRequests, requestId, promises>>
subVars == <<messageListeners, unsubscribers>>
msgVars == <<dispatched, lastMessage>>

clientVars == <<connVars, corrVars, subVars, msgVars, obsVars>>

\* the variables of the server (src/unnamed/part_002)
VARIABLES
    running,        \* the server process runs (FALSE once process.exit ran)
    conns,          \* readyState of every ws the server accepted, in order
    clients,        \* the Set of registered ws
    ID,
    CURRENT_LOG,
    ENV_VALUES,
    jobs,           \* one record per startProcess closure, in order of start
    logIds,         \* the ids of the log events emitted, in order
    out             \* what the last event handed to ws.send: <<[to, env], ...>>

serverVars == <<running, conns, clients, ID, CURRENT_LOG, ENV_VALUES, jobs,
                logIds, out>>

\* the network between the client and the server belongs to neither program:
\* frames the client handed to socket.send and the server has not read yet,
\* envelopes the server handed to ws.send and the client has not read yet,
\* and, for each promise, the socket its frame was handed to (0: none).
\* Each specification says in its next-state relation what the network does.
VARIABLES up, down, sentOn

netVars == <<up, down, sentOn>>

\* the components of the page use socket.js from outside: the instances
\* React mounted, and the calls the running callback has still to make (the
\* rest of an effect or of its cleanup, the continuation of an await)
VARIABLES mounts, todo

uiVars == <<mounts, todo>>

\* the message a caller hands to the intercepted console (a string, kept as
\* the sequence of its characters and escape codes) and the html made of it
VARIABLES message, html

ansiVars == <<message, html>>

\* what surrounds the client module and the server
envVars == <<netVars, uiVars, ansiVars>>

vars == <<clientVars, serverVars, netVars, uiVars, ansiVars>>

Handlers == {"h1", "h2"}

\* the handlers components pass to subscribeConnectionState
StateHandlers == {"o1", "o2"}

\* the request types the client model issues
ClientReqTypes == {"timeRequest", "test"}

\* the envelope types a peer delivers to the client
InboundTypes == {"timeRequest", "test", "error", "log"}

InboundIds == (0 .. MaxRequests - 1) \cup {NoId}

NoEnv == Env(Null, NoId)

InitClient ==
    /\ sockets = << >>
    /\ socket = 0
    /\ reconnectTimer = 0
    /\ connectionState = "Disconnected"
    /\ messageListeners = << >>
    /\ pendingRequests = << >>
    /\ requestId = 0
    /\ reconnectAttempts = 0
    /\ promises = << >>
    /\ unsubscribers = << >>
    /\ dispatched = << >>
    /\ lastMessage = [env |-> NoEnv, had |-> FALSE]
    /\ timeouts = << >>
    /\ delays = << >>
    /\ stateListeners = << >>
    /\ lastSeen = [h \in StateHandlers |-> Null]
    /\ stateCalls = << >>

SeqToSet(q) == {q[i] : i \in DOMAIN q}

\* Set.prototype.add / Set.prototype.delete on a Set kept in insertion order
SetAdd_Push(q, h) == Append(q, h)

SetDelete_Pop(q, h) ==
    IF h \in SeqToSet(q) THEN SelectSeq(q, LAMBDA x : x # h)
    ELSE SubSeq(q, 1, Len(q) - 1)

\* socket.js:172  Set.prototype.add: insertion order, one instance of a value
SetAdd(q, h) == IF h \in SeqToSet(q) THEN q ELSE Append(q, h)

\* socket.js:175  Set.prototype.delete
SetDelete(q, h) == SelectSeq(q, LAMBDA x : x # h)

\* an event that reaches neither setState nor subscribeConnectionState
NoStateCall ==
    /\ stateCalls' = << >>
    /\ UNCHANGED <<stateListeners, lastSeen>>

\* socket.js:25-27  notifyState(): forEach over the Set, in insertion order
notifyState(state) ==
    /\ stateCalls' = [k \in DOMAIN stateListeners |->
                         [handler |-> stateListeners[k], state |-> state]]
    /\ lastSeen' = [h \in StateHandlers |->
                       IF h \in SeqToSet(stateListeners) THEN state
                       ELSE lastSeen[h]]
    /\ UNCHANGED stateListeners

setState_Silent(state) == connectionState' = state /\ NoStateCall

\* socket.js:33-37  setState(state)
setState(state) ==
    /\ connectionState' = state
    /\ notifyState(state)

Min(a, b) == IF a < b THEN a ELSE b

RECURSIVE Pow2(_)
Pow2(n) == IF n = 0 THEN 1 ELSE 2 * Pow2(n - 1)

ReconnectDelay_NoCap(attempts) == 1000 * Pow2(attempts)

\* socket.js:44  Math.min(1000 * 2 ** reconnectAttempts, 10000)
ReconnectDelay(attempts) == Min(1000 * Pow2(attempts), 10000)

\* socket.js:54-59  the early return of connect()
ConnectReturnsEarly ==
    /\ socket # 0
    /\ sockets[socket] \in {"OPEN", "CONNECTING"}

connect_NoGuard ==
    /\ setState("Connecting...")
    /\ sockets' = Append(sockets, "CONNECTING")
    /\ socket' = Len(sockets) + 1

\* socket.js:53-122  connect()
connect ==
    IF ConnectReturnsEarly
    THEN UNCHANGED <<sockets, socket, connectionState>> /\ NoStateCall
    ELSE /\ setState("Connecting...")
         /\ sockets' = Append(sockets, "CONNECTING")
         /\ socket' = Len(sockets) + 1

\* socket.js:135-137  startSocket()
startSocket ==
    /\ connect
    /\ UNCHANGED <<reconnectTimer, reconnectAttempts, timeouts, delays,
                   corrVars, subVars, msgVars, serverVars>>

\* socket.js:73-77  the "open" listener of socket s
SocketOpen(s) ==
    /\ sockets[s] = "CONNECTING"
    /\ sockets' = [sockets EXCEPT ![s] = "OPEN"]
    /\ reconnectAttempts' = 0
    /\ delays' = << >>
    /\ setState("Connected")
    /\ UNCHANGED <<socket, reconnectTimer, timeouts, corrVars, subVars,
                   msgVars, serverVars>>

\* the closing handshake of socket s starts: its readyState is CLOSING and
\* its "close" event has not fired yet
SocketClosing(s) ==
    /\ sockets[s] \in {"CONNECTING", "OPEN"}
    /\ sockets' = [sockets EXCEPT ![s] = "CLOSING"]
    /\ NoStateCall
    /\ UNCHANGED <<socket, reconnectTimer, connectionState,
                   reconnectAttempts, timeouts, delays, corrVars, subVars,
                   msgVars, serverVars>>

\* socket.js:42-50  the body of scheduleReconnect() after its guard
ArmTimer ==
    /\ reconnectAttempts' = reconnectAttempts + 1
    /\ reconnectTimer' = ReconnectDelay(reconnectAttempts + 1)
    /\ timeouts' = Append(timeouts, ReconnectDelay(reconnectAttempts + 1))
    /\ delays' = Append(delays, ReconnectDelay(reconnectAttempts + 1))

scheduleReconnect_NoGuard == ArmTimer

scheduleReconnect_Limited ==
    IF reconnectTimer # 0 \/ reconnectAttempts >= 3
    THEN UNCHANGED <<reconnectTimer, reconnectAttempts, timeouts, delays>>
    ELSE ArmTimer

\* socket.js:39-51  scheduleReconnect()
scheduleReconnect ==
    IF reconnectTimer # 0
    THEN UNCHANGED <<reconnectTimer, reconnectAttempts, timeouts, delays>>
    ELSE ArmTimer

SocketClose_RejectsPending(s) ==
    /\ sockets[s] # "CLOSED"
    /\ sockets' = [sockets EXCEPT ![s] = "CLOSED"]
    /\ setState("Disconnected")
    /\ scheduleReconnect
    /\ pendingRequests' = << >>
    /\ promises' = [k \in DOMAIN promises |->
                       IF promises[k].state = "pending"
                       THEN [promises[k] EXCEPT !.state = "rejected"]
                       ELSE promises[k]]
    /\ UNCHANGED <<socket, requestId, subVars, msgVars, serverVars>>

\* socket.js:67-71  the "close" listener of socket s
SocketClose(s) ==
    /\ sockets[s] # "CLOSED"
    /\ sockets' = [sockets EXCEPT ![s] = "CLOSED"]
    /\ setState("Disconnected")
    /\ scheduleReconnect
    /\ UNCHANGED <<socket, corrVars, subVars, msgVars,
                   serverVars>>

\* the sequence q without its k-th element
Remove(q, k) == SubSeq(q, 1, k - 1) \o SubSeq(q, k + 1, Len(q))

\* socket.js:46-50  the k-th pending timer fires
TimerFire(k) ==
    /\ k \in DOMAIN timeouts
    /\ timeouts' = Remove(timeouts, k)
    /\ reconnectTimer' = 0
    /\ connect
    /\ UNCHANGED <<reconnectAttempts, delays, corrVars, subVars, msgVars,
                   serverVars>>

\* Map.prototype.set / Map.prototype.delete on a map kept as a function
MapSet(m, k, v) == [x \in (DOMAIN m) \cup {k} |-> IF x = k THEN v ELSE m[x]]

MapDelete(m, k) == [x \in (DOMAIN m) \ {k} |-> m[x]]

NextRequestId_NoIncrement(r) == r

\* socket.js:218  const id = requestId++  (the value the counter takes)
NextRequestId(r) == r + 1

\* socket.js:212  the guard of request()
SocketNotOpen == socket = 0 \/ sockets[socket] # "OPEN"

\* the promise request() returns: the type asked, the id allocated (with an
\* id the frame {type, id, payload} was handed to socket.send), and the
\* envelopes its resolve function was called with
Promise(t, i, st) == [type |-> t, id |-> i, state |-> st, calls |-> << >>]

request_FallsThrough(t) ==
    /\ Len(promises) < MaxRequests
    /\ requestId' = NextRequestId(requestId)
    /\ pendingRequests' = MapSet(pendingRequests, requestId, Len(promises) + 1)
    /\ promises' = Append(promises,
                       Promise(t, requestId,
                               IF SocketNotOpen THEN "resolved" ELSE "pending"))
    /\ NoStateCall
    /\ UNCHANGED <<connVars, subVars, msgVars, serverVars>>

\* socket.js:210-228  request(type, payload)
\* With the socket absent or not open the executor reads `id` (line 215)
\* before the `const id` declaration of line 218 has run: the read throws a
\* ReferenceError, the executor ends there and the promise is rejected.
request(t) ==
    /\ Len(promises) < MaxRequests
    /\ IF SocketNotOpen
       THEN /\ promises' = Append(promises, Promise(t, NoId, "rejected"))
            /\ UNCHANGED <<requestId, pendingRequests>>
       ELSE /\ requestId' = NextRequestId(requestId)
            /\ pendingRequests' =
                   MapSet(pendingRequests, requestId, Len(promises) + 1)
            /\ promises' = Append(promises, Promise(t, requestId, "pending"))
    /\ NoStateCall
    /\ UNCHANGED <<connVars, subVars, msgVars,
                   serverVars>>

ResponseTypes_WithLog ==
    {"error", "downloadLog", "timeRequest", "getEnvValues", "setEnvValue",
     "startProcess", "restartServer", "shutdownServer", "installAsset",
     "uninstallAsset", "installPatch", "uninstallPatch", "getUserAccounts",
     "getSecret", "switchDevice", "log"}

\* socket.js:86-101  the types the message listener treats as responses
ResponseTypes ==
    {"error", "downloadLog", "timeRequest", "getEnvValues", "setEnvValue",
     "startProcess", "restartServer", "shutdownServer", "installAsset",
     "uninstallAsset", "installPatch", "uninstallPatch", "getUserAccounts",
     "getSecret", "switchDevice"}

\* socket.js:103-105  pendingRequests.get(msg.id) is a resolver
HasResolver(m, env) == env.id \in DOMAIN m

\* socket.js:106  resolver(msg): the resolve function of promise k is called;
\* a promise settles on the first call of its resolve function
InvokeResolver(ps, k, env) ==
    [ps EXCEPT ![k] = [@ EXCEPT !.calls = Append(@, env),
                                !.state = IF @ = "pending" THEN "resolved"
                                          ELSE @]]

RemovePending_Keep(m, i) == m

\* socket.js:108  pendingRequests.delete(msg.id)
RemovePending(m, i) == MapDelete(m, i)

\* socket.js:114-118  messageListeners.get(msg.type), forEach in Set order
Subscribers(ml, t) == IF t \in DOMAIN ml THEN ml[t] ELSE << >>

\* socket.js:79-121  the "message" listener of socket s
ClientMessage(s, env) ==
    /\ sockets[s] = "OPEN"
    /\ IF env.type \in ResponseTypes
       THEN /\ IF HasResolver(pendingRequests, env)
               THEN /\ promises' = InvokeResolver(promises,
                                       pendingRequests[env.id], env)
                    /\ pendingRequests' = RemovePending(pendingRequests, env.id)
               ELSE UNCHANGED <<promises, pendingRequests>>
            /\ dispatched' = << >>
       ELSE /\ dispatched' = Subscribers(messageListeners, env.type)
            /\ UNCHANGED <<promises, pendingRequests>>
    /\ lastMessage' = [env |-> env, had |-> HasResolver(pendingRequests, env)]
    /\ NoStateCall
    /\ UNCHANGED <<connVars, requestId, subVars, serverVars>>

\* the types the client model subscribes to
ClientSubTypes == {"log", "jobProgress"}

\* socket.js:167-177  subscribe(type, handler)
subscribe(t, h) ==
    /\ messageListeners' =
           MapSet(messageListeners, t, SetAdd(Subscribers(messageListeners, t), h))
    /\ unsubscribers' = Append(unsubscribers,
                            [type |-> t, handler |-> h, calls |-> 0])
    /\ NoStateCall
    /\ UNCHANGED <<connVars, corrVars, msgVars,
                   serverVars>>

\* socket.js:174-176  the closure subscribe() returned
unsubscribe(u) ==
    /\ u \in DOMAIN unsubscribers
    /\ messageListeners' =
           [messageListeners EXCEPT ![unsubscribers[u].type] =
                                        SetDelete(@, unsubscribers[u].handler)]
    /\ unsubscribers' = [unsubscribers EXCEPT ![u].calls = @ + 1]
    /\ NoStateCall
    /\ UNCHANGED <<connVars, corrVars, msgVars, serverVars>>

\* socket.js:185-191  subscribeConnectionState(handler)
subscribeConnectionState(h) ==
    /\ stateListeners' = SetAdd(stateListeners, h)
    /\ stateCalls' = <<[handler |-> h, state |-> connectionState]>>
    /\ lastSeen' = [lastSeen EXCEPT ![h] = connectionState]
    /\ UNCHANGED <<connVars, corrVars, subVars, msgVars, serverVars>>

\* socket.js:190  the closure subscribeConnectionState(h) returned; it
\* exists once h was registered, and h was called then
unsubscribeConnectionState(h) ==
    /\ lastSeen[h] # Null
    /\ stateListeners' = SetDelete(stateListeners, h)
    /\ stateCalls' = << >>
    /\ UNCHANGED <<lastSeen, connVars, corrVars, subVars, msgVars,
                   serverVars>>

\* connect() creates a socket unless it returns early: n bounds the sockets
MayConnect(n) == ConnectReturnsEarly \/ Len(sockets) < n

\* the connection manager and the request correlator
NextClient ==
    \/ MayConnect(MaxSockets) /\ startSocket /\ UNCHANGED envVars
    \/ \E s \in DOMAIN sockets : SocketOpen(s) /\ UNCHANGED envVars
    \/ \E s \in DOMAIN sockets : SocketClosing(s) /\ UNCHANGED envVars
    \/ \E s \in DOMAIN sockets : SocketClose(s) /\ UNCHANGED envVars
    \/ \E k \in DOMAIN timeouts : MayConnect(MaxSockets) /\ TimerFire(k) /\ UNCHANGED envVars
    \/ \E t \in ClientReqTypes : request(t) /\ UNCHANGED envVars
    \/ \E s \in DOMAIN sockets : \E t \in InboundTypes : \E i \in InboundIds :
           ClientMessage(s, Env(t, i)) /\ UNCHANGED envVars

\* the connection manager alone: startSocket() calls, the events of every
\* socket created so far, and the reconnect timers
NextConn ==
    \/ MayConnect(MaxConnSockets) /\ startSocket /\ UNCHANGED envVars
    \/ \E s \in DOMAIN sockets : SocketOpen(s) /\ UNCHANGED envVars
    \/ \E s \in DOMAIN sockets : SocketClosing(s) /\ UNCHANGED envVars
    \/ \E s \in DOMAIN sockets : SocketClose(s) /\ UNCHANGED envVars
    \/ \E k \in DOMAIN timeouts : MayConnect(MaxConnSockets) /\ TimerFire(k) /\ UNCHANGED envVars

\* the connection manager and the components observing its state
NextObs ==
    \/ MayConnect(MaxObsSockets) /\ startSocket /\ UNCHANGED envVars
    \/ \E s \in DOMAIN sockets : SocketOpen(s) /\ UNCHANGED envVars
    \/ \E s \in DOMAIN sockets : SocketClosing(s) /\ UNCHANGED envVars
    \/ \E s \in DOMAIN sockets : SocketClose(s) /\ UNCHANGED envVars
    \/ \E k \in DOMAIN timeouts : MayConnect(MaxObsSockets) /\ TimerFire(k) /\ UNCHANGED envVars
    \/ \E h \in StateHandlers : subscribeConnectionState(h) /\ UNCHANGED envVars
    \/ \E h \in StateHandlers : unsubscribeConnectionState(h) /\ UNCHANGED envVars

\* the bounds of the subscription dispatcher's specification
MaxSubscribes == 2

MaxCalls == 2

MaxDispRequests == 1

\* the types of the envelopes that arrive: one that handlers subscribe to,
\* one that no handler subscribes to, and a response type
DispatchTypes == {"log", "jobComplete", "timeRequest"}

DispatchIds == {0, NoId}

\* the subscription dispatcher next to the request correlator, on one socket
NextDispatch ==
    \/ startSocket /\ UNCHANGED envVars
    \/ \E s \in DOMAIN sockets : SocketOpen(s) /\ UNCHANGED envVars
    \/ \E t \in ClientSubTypes : \E h \in Handlers :
           Len(unsubscribers) < MaxSubscribes /\ subscribe(t, h)
                                              /\ UNCHANGED envVars
    \/ \E u \in DOMAIN unsubscribers :
           unsubscribers[u].calls < MaxCalls /\ unsubscribe(u)
                                             /\ UNCHANGED envVars
    \/ Len(promises) < MaxDispRequests /\ request("timeRequest")
                                        /\ UNCHANGED envVars
    \/ \E s \in DOMAIN sockets : \E t \in DispatchTypes : \E i \in DispatchIds :
           ClientMessage(s, Env(t, i)) /\ UNCHANGED envVars

(***************************************************************************)
(* SERVER  (src/unnamed/part_002)                                          *)
(***************************************************************************)
Undefined == "undefined"
NoJob == -1          \* a payload without jobId
NoProgress == -1     \* a payload without progress

\* the payload of a server envelope: the fields the handlers set
Payload(j, p, txt) ==
    [jobId |-> j, progress |-> p, text |-> txt, name |-> Undefined]

SEnv(t, i, pl) == [type |-> t, id |-> i, payload |-> pl]

Text(txt) == Payload(NoJob, NoProgress, txt)

\* part_002:1607-1610  the payload of downloadLog: a file name and its text
File(name, txt) == [Text(txt) EXCEPT !.name = name]

\* the payload of a frame: absent, or an object with key and value fields
NoPayload == [present |-> FALSE, key |-> Undefined, value |-> Undefined]

KeyValue(k, v) == [present |-> TRUE, key |-> k, value |-> v]

Frame(t, i, pl) == [type |-> t, id |-> i, payload |-> pl]

\* part_002:900-942  ENV_VALUES, its key VER
InitServer ==
    /\ running = TRUE
    /\ conns = << >>
    /\ clients = {}
    /\ ID = 0
    /\ CURRENT_LOG = << >>
    /\ ENV_VALUES = [VER |-> "GL"]
    /\ jobs = << >>
    /\ logIds = << >>
    /\ out = << >>

\* typeof of the values the model uses
TypeOf(v) == IF v = Undefined THEN "undefined"
             ELSE IF v \in {"5", "30"} THEN "number" ELSE "string"

\* values[key], undefined for a key ENV_VALUES does not have
EnvGet(values, k) == IF k \in DOMAIN values THEN values[k] ELSE Undefined

Send_NoCheck(cs, ws, env) == <<[to |-> ws, env |-> env]>>

Send_First(cs, ws, env) ==
    IF cs[1] = "OPEN" THEN <<[to |-> 1, env |-> env]>> ELSE << >>

\* part_002:1138-1142  send(ws, message)
Send(cs, ws, env) ==
    IF cs[ws] = "OPEN" THEN <<[to |-> ws, env |-> env]>> ELSE << >>

Indices(q) == [i \in 1 .. Len(q) |-> i]

Broadcast_NoCheck(cs, cl, env) ==
    LET targets == SelectSeq(Indices(cs), LAMBDA c : c \in cl)
    IN  [k \in 1 .. Len(targets) |-> [to |-> targets[k], env |-> env]]

\* part_002:1123-1131  broadcast(message): the Set is walked in insertion
\* order, which is the order of connection
Broadcast(cs, cl, env) ==
    LET targets == SelectSeq(Indices(cs),
                             LAMBDA c : c \in cl /\ cs[c] = "OPEN")
    IN  [k \in 1 .. Len(targets) |-> [to |-> targets[k], env |-> env]]

NextID_NoIncrement(n) == n

\* part_002:1172,1184,1196,1220  ID++  (the value the counter takes)
NextID(n) == n + 1

\* The handlers run to completion on the event loop.  A handler is a chain
\* of steps on the record of what it changes:
\*   ID, LOG (CURRENT_LOG), logIds, out, ENV (ENV_VALUES), jobs, running
Running(st) == st.running

Console_Unshift(st, cs, cl, txt) ==
    [st EXCEPT !.LOG = <<txt>> \o @,
               !.logIds = Append(@, st.ID),
               !.ID = NextID(@),
               !.out = @ \o Broadcast(cs, cl, SEnv("log", st.ID, Text(txt)))]

\* part_002:1163-1197  an intercepted console.log / console.warn /
\* console.error: push the text, broadcast a log event with id ID++
Console(st, cs, cl, txt) ==
    [st EXCEPT !.LOG = Append(@, txt),
               !.logIds = Append(@, st.ID),
               !.ID = NextID(@),
               !.out = @ \o Broadcast(cs, cl, SEnv("log", st.ID, Text(txt)))]

SendStep_Broadcast(st, cs, ws, env) ==
    [st EXCEPT !.out = @ \o Broadcast(cs, clients, env)]

\* part_002:1138-1142  send(ws, message) called by a handler
SendStep(st, cs, ws, env) == [st EXCEPT !.out = @ \o Send(cs, ws, env)]

\* part_002:1421,1487  process.exit
Exit(st) == [st EXCEPT !.running = FALSE]

\* a join that keeps the last element only
Join_Last(lines, sep) == IF lines = << >> THEN "" ELSE lines[Len(lines)]

RECURSIVE Join(_, _)
\* Array.prototype.join
Join(lines, sep) ==
    IF lines = << >> THEN ""
    ELSE IF Len(lines) = 1 THEN lines[1]
    ELSE lines[1] \o sep \o Join(Tail(lines), sep)

\* part_002:1552-1558  the closure of one startProcess request
Job(jobId, ws, i, first) ==
    [jobId |-> jobId, ws |-> ws, id |-> i, percent |-> 0, active |-> TRUE,
     calls |-> <<first>>]

\* part_002:1524-1527  the test of setEnvValue, for a payload that is present
KeyError(values, pl) ==
    \/ pl.key = Undefined
    \/ pl.value = Undefined
    \/ EnvGet(values, pl.key) = Undefined
    \/ TypeOf(EnvGet(values, pl.key)) # TypeOf(pl.value)

\* part_002:1524-1527  evaluating the test throws a TypeError: with the
\* payload absent `msg.payload && ...` is falsy twice and the third operand
\* reads msg.payload.key
SetEnvThrows(msg) == msg.type = "setEnvValue" /\ ~msg.payload.present

Stubs_WithUnknown ==
    {"installAsset", "uninstallAsset", "installPatch", "uninstallPatch",
     "getUserAccounts", "getSecret", "switchDevice", "doesNotExist"}

\* part_002:1490-1503  the cases that break without sending
Stubs == {"installAsset", "uninstallAsset", "installPatch", "uninstallPatch",
          "getUserAccounts", "getSecret", "switchDevice"}

\* part_002:1462-1626  _admin_websocket_functions(send, ws, msg, jobId),
\* for a message on which it does not throw
AdminWebsocketFunctions(st, cs, cl, ws, msg, jobId) ==
    CASE msg.type = "restartServer" ->
           Exit(SendStep(Console(st, cs, cl, "[info] Restarting Offline Server..."),
                         cs, ws, SEnv("restartServer", msg.id, Text("success"))))
      [] msg.type = "shutdownServer" ->
           Exit(SendStep(Console(st, cs, cl, "[info] Exiting Offline Server..."),
                         cs, ws, SEnv("shutdownServer", msg.id, Text("success"))))
      [] msg.type \in Stubs -> st
      [] msg.type = "timeRequest" ->
           SendStep(st, cs, ws, SEnv("timeRequest", msg.id, Text("time")))
      [] msg.type = "getEnvValues" ->
           SendStep(st, cs, ws, SEnv("getEnvValues", msg.id, Text(st.ENV.VER)))
      [] msg.type = "setEnvValue" ->
           IF KeyError(st.ENV, msg.payload)
           THEN SendStep(st, cs, ws, SEnv("error", msg.id, Text("Key Error.")))
           ELSE SendStep([st EXCEPT !.ENV[msg.payload.key] = msg.payload.value],
                         cs, ws, SEnv("setEnvValue", msg.id, Text("success")))
      [] msg.type = "startProcess" ->
           LET reply == SEnv("startProcess", msg.id,
                             Payload(jobId, 0, "Starting..."))
           IN  [SendStep(st, cs, ws, reply)
                   EXCEPT !.jobs = Append(@, Job(jobId, ws, msg.id, reply))]
      [] msg.type = "test" ->
           SendStep(
             Console(Console(Console(Console(st,
               cs, cl, "[info] Test log"),
               cs, cl, "[warn] Warning log"),
               cs, cl, "[error] Error log"),
               cs, cl, "[debug] Debug log"),
             cs, ws, SEnv("test", msg.id, Text("Logged test")))
      [] msg.type = "downloadLog" ->
           SendStep(st, cs, ws,
                    SEnv("downloadLog", msg.id,
                         File("test.log", Join(st.LOG, "\n"))))
      [] OTHER ->
           SendStep(st, cs, ws, SEnv("error", msg.id, Text("Unknown action")))

\* part_002:1212-1234  the body of ws.on("message") after JSON.parse
\* succeeded: ID++ is evaluated as the call's argument, before the call
OnMessage(st, cs, cl, ws, msg) ==
    IF msg.type # Undefined
    THEN LET drawn == [st EXCEPT !.ID = NextID(@)]
         IN  IF SetEnvThrows(msg)
             THEN SendStep(drawn, cs, ws,
                      SEnv("error", NoId, Text("Invalid message format")))
             ELSE AdminWebsocketFunctions(drawn, cs, cl, ws, msg, st.ID)
    ELSE SendStep(st, cs, ws, SEnv("error", msg.id, Text("Unknown action")))

Current == [ID |-> ID, LOG |-> CURRENT_LOG, logIds |-> logIds, out |-> << >>,
            ENV |-> ENV_VALUES, jobs |-> jobs, running |-> running]

Commit(st) ==
    /\ ID' = st.ID
    /\ CURRENT_LOG' = st.LOG
    /\ logIds' = st.logIds
    /\ out' = st.out
    /\ ENV_VALUES' = st.ENV
    /\ jobs' = st.jobs
    /\ running' = st.running

\* part_002:1209-1210  wss.on("connection"): clients.add(ws)
Connection ==
    /\ running
    /\ conns' = Append(conns, "OPEN")
    /\ clients' = clients \cup {Len(conns) + 1}
    /\ out' = << >>
    /\ UNCHANGED <<running, ID, CURRENT_LOG, ENV_VALUES, jobs, logIds,
                   clientVars>>

\* the closing handshake of ws c starts or its transport drops: readyState
\* is no longer OPEN and the "close" event has not been emitted yet
WsClosing(c) ==
    /\ running
    /\ conns[c] = "OPEN"
    /\ conns' = [conns EXCEPT ![c] = "CLOSING"]
    /\ out' = << >>
    /\ UNCHANGED <<running, clients, ID, CURRENT_LOG, ENV_VALUES, jobs,
                   logIds, clientVars>>

\* part_002:1236  ws.on("close"): clients.delete(ws)
WsClose(c) ==
    /\ running
    /\ conns[c] # "CLOSED"
    /\ conns' = [conns EXCEPT ![c] = "CLOSED"]
    /\ clients' = clients \ {c}
    /\ out' = << >>
    /\ UNCHANGED <<running, ID, CURRENT_LOG, ENV_VALUES, jobs, logIds,
                   clientVars>>

\* part_002:1212-1234  ws.on("message") of ws c, for a frame JSON.parse
\* accepts
Message(c, msg) ==
    /\ running
    /\ conns[c] = "OPEN"
    /\ Commit(OnMessage(Current, conns, clients, c, msg))
    /\ UNCHANGED <<conns, clients, clientVars>>

Malformed_Silent(c) ==
    /\ running
    /\ conns[c] = "OPEN"
    /\ ID' = NextID(ID)
    /\ out' = << >>
    /\ UNCHANGED <<running, conns, clients, CURRENT_LOG, ENV_VALUES, jobs,
                   logIds, clientVars>>

Malformed_Fatal(c) ==
    /\ running
    /\ conns[c] = "OPEN"
    /\ out' = Send(conns, c, SEnv("error", NoId, Text("Invalid message format")))
    /\ conns' = [conns EXCEPT ![c] = "CLOSED"]
    /\ clients' = clients \ {c}
    /\ UNCHANGED <<running, ID, CURRENT_LOG, ENV_VALUES, jobs, logIds,
                   clientVars>>

\* part_002:1228-1233  ws.on("message") of ws c, for a frame on which
\* JSON.parse throws
Malformed(c) ==
    /\ running
    /\ conns[c] = "OPEN"
    /\ out' = Send(conns, c, SEnv("error", NoId, Text("Invalid message format")))
    /\ UNCHANGED <<running, conns, clients, ID, CURRENT_LOG, ENV_VALUES, jobs,
                   logIds, clientVars>>

\* part_002:1163-1197  console.log / console.warn / console.error called by
\* the rest of the server (the HTTP routes, admin_server.listen)
ConsoleCall(level) ==
    /\ running
    /\ Commit(Console(Current, conns, clients, level))
    /\ UNCHANGED <<conns, clients, clientVars>>

JobStep_Five(p) == p + 5

\* part_002:1561  percent += 10
JobStep(p) == p + 10

\* part_002:1569  percent >= 100
Finished(p) == p >= 100

ClearInterval_Skip(job) == job

\* part_002:1570  clearInterval(interval)
ClearInterval(job) == [job EXCEPT !.active = FALSE]

Emit_Broadcast(cs, job, env) == Broadcast(cs, clients, env)

\* part_002:1563, 1572  send(ws, {...}) inside the callback: ws is the
\* connection the startProcess request came from
Emit(cs, job, env) == Send(cs, job.ws, env)

\* part_002:1560-1578  one run of the setInterval callback of a job
IntervalCallback(cs, job) ==
    LET p == JobStep(job.percent)
        progress == SEnv("jobProgress", job.id,
                         Payload(job.jobId, p, "Processing..."))
        complete == SEnv("jobComplete", job.id,
                         Payload(job.jobId, p, "File processed successfully"))
        stepped == [job EXCEPT !.percent = p, !.calls = Append(@, progress)]
    IN  IF Finished(p)
        THEN [job |-> [ClearInterval(stepped) EXCEPT
                          !.calls = Append(@, complete)],
              out |-> Emit(cs, job, progress) \o Emit(cs, job, complete)]
        ELSE [job |-> stepped, out |-> Emit(cs, job, progress)]

Tick_SharedPercent(j) ==
    /\ running
    /\ j \in DOMAIN jobs
    /\ jobs[j].active
    /\ LET r == IntervalCallback(conns, jobs[j])
       IN  /\ jobs' = [k \in DOMAIN jobs |->
                          IF k = j THEN r.job
                          ELSE [jobs[k] EXCEPT !.percent = r.job.percent]]
           /\ out' = r.out
    /\ UNCHANGED <<running, conns, clients, ID, CURRENT_LOG, ENV_VALUES,
                   logIds, clientVars>>

\* part_002:1560-1578  the interval timer of job j fires
Tick(j) ==
    /\ running
    /\ j \in DOMAIN jobs
    /\ jobs[j].active
    /\ LET r == IntervalCallback(conns, jobs[j])
       IN  /\ jobs' = [jobs EXCEPT ![j] = r.job]
           /\ out' = r.out
    /\ UNCHANGED <<running, conns, clients, ID, CURRENT_LOG, ENV_VALUES,
                   logIds, clientVars>>

\* the frames the peers send
FrameTypes ==
    {"timeRequest", "getEnvValues", "setEnvValue", "startProcess", "test",
     "downloadLog", "restartServer", "shutdownServer", "getSecret",
     "installAsset", "doesNotExist", "log", Undefined}

FrameIds == {0, 1}

FramePayloads(t) ==
    IF t = "setEnvValue"
    THEN {NoPayload, KeyValue(Undefined, "JP"), KeyValue("VER", Undefined),
          KeyValue("BOGUS", "JP"), KeyValue("VER", "5"), KeyValue("VER", "JP")}
    ELSE {NoPayload}

Frames == {Frame(t, i, pl) : t \in FrameTypes, i \in FrameIds,
                             pl \in UNION {FramePayloads(x) : x \in FrameTypes}}

ConsoleLevels == {"log", "warn", "error"}

\* the request dispatch: connections, frames of every type, log lines (the
\* interval timers of the jobs started here run in NextJobs)
NextServer ==
    \/ Len(conns) < MaxConns /\ Connection /\ UNCHANGED envVars
    \/ \E c \in DOMAIN conns : WsClosing(c) /\ UNCHANGED envVars
    \/ \E c \in DOMAIN conns : WsClose(c) /\ UNCHANGED envVars
    \/ \E c \in DOMAIN conns : \E t \in FrameTypes : \E i \in FrameIds :
         \E pl \in FramePayloads(t) :
           ID < MaxID /\ Message(c, Frame(t, i, pl)) /\ UNCHANGED envVars
    \/ \E c \in DOMAIN conns : Malformed(c) /\ UNCHANGED envVars
    \/ \E level \in ConsoleLevels : ID < MaxID /\ ConsoleCall(level) /\ UNCHANGED envVars

\* the frames that start a job or end the process
\* the bounds of the log history's specification
MaxLogConns == 1

MaxLogID == 3

\* the log history: lines are printed and frames of every type arrive on
\* the connections
NextLog ==
    \/ Len(conns) < MaxLogConns /\ Connection /\ UNCHANGED envVars
    \/ \E c \in DOMAIN conns : WsClose(c) /\ UNCHANGED envVars
    \/ \E c \in DOMAIN conns : \E t \in FrameTypes : \E i \in FrameIds :
         \E pl \in FramePayloads(t) :
           ID < MaxLogID /\ Message(c, Frame(t, i, pl)) /\ UNCHANGED envVars
    \/ \E level \in ConsoleLevels :
           ID < MaxLogID /\ ConsoleCall(level) /\ UNCHANGED envVars

JobFrameTypes == {"startProcess", "shutdownServer"}

\* the job drivers: connections, startProcess requests, interval timers
NextJobs ==
    \/ Len(conns) < MaxJobConns /\ Connection /\ UNCHANGED envVars
    \/ \E c \in DOMAIN conns : WsClosing(c) /\ UNCHANGED envVars
    \/ \E c \in DOMAIN conns : WsClose(c) /\ UNCHANGED envVars
    \/ \E c \in DOMAIN conns : \E t \in JobFrameTypes : \E i \in FrameIds :
           /\ t = "startProcess" => Len(jobs) < MaxDrivers
           /\ Message(c, Frame(t, i, NoPayload))
           /\ UNCHANGED envVars
    \/ \E j \in DOMAIN jobs : Tick(j) /\ UNCHANGED envVars

\* several job drivers in flight on connections that stay open
NextDrivers ==
    \/ Len(conns) < MaxDriverConns /\ Connection /\ UNCHANGED envVars
    \/ \E c \in DOMAIN conns : \E i \in FrameIds :
           /\ Len(jobs) < MaxConcurrent
           /\ Message(c, Frame("startProcess", i, NoPayload))
           /\ UNCHANGED envVars
    \/ \E j \in DOMAIN jobs : Tick(j) /\ UNCHANGED envVars

\* the state after both modules were loaded
(***************************************************************************)
(* SESSION: the client and the server joined by the network.  Socket s of  *)
(* the client is connection s of the server: the server accepts the        *)
(* connections in the order the client opens them.  Each direction of a    *)
(* connection delivers in order; what travels on a connection that closes  *)
(* is never read.                                                          *)
(***************************************************************************)
MaxSessSockets == 2

SessReqTypes == {"timeRequest", "setEnvValue"}

\* the position in q of the oldest entry travelling on connection c, 0: none
Oldest(q, c) ==
    LET ks == {k \in DOMAIN q : q[k].to = c}
    IN  IF ks = {} THEN 0 ELSE CHOOSE k \in ks : \A m \in ks : k <= m

\* socket.js:222-226  JSON.stringify({ id, type, payload }) of a request made
\* without payload, as JSON.parse of part_002:1214 reads it
Stringified(t, i) == Frame(t, i, NoPayload)

\* socket.js:80-84  JSON.parse of an envelope of the server: the listener
\* reads its type and its id
Parsed(env) == Env(env.type, env.id)

\* socket.js:210-228  request(type) and the frame it hands to the socket
SessionRequest(t) ==
    /\ request(t)
    /\ IF SocketNotOpen
       THEN /\ sentOn' = Append(sentOn, 0)
            /\ UNCHANGED up
       ELSE /\ sentOn' = Append(sentOn, socket)
            /\ up' = Append(up, [to |-> socket,
                                 frame |-> Stringified(t, requestId)])
    /\ UNCHANGED down

\* part_002:1209  the server accepts the next socket the client created
SessionConnection ==
    /\ Len(conns) < Len(sockets)
    /\ Connection
    /\ UNCHANGED envVars

\* part_002:1212-1234  ws.on("message") of connection c for the oldest frame
\* travelling to it; what it hands to ws.send travels back
ServerReads(c) ==
    LET k == Oldest(up, c)
    IN  /\ k # 0
        /\ Message(c, up[k].frame)
        /\ up' = Remove(up, k)
        /\ down' = down \o out'
        /\ UNCHANGED sentOn

\* socket.js:79-121  the "message" listener of socket s for the oldest
\* envelope travelling to it
ClientReads(s) ==
    LET k == Oldest(down, s)
    IN  /\ k # 0
        /\ ClientMessage(s, Parsed(down[k].env))
        /\ down' = Remove(down, k)
        /\ UNCHANGED <<up, sentOn>>

\* the client, the server and the network between them
NextSession ==
    \/ MayConnect(MaxSessSockets) /\ startSocket /\ UNCHANGED envVars
    \/ \E s \in DOMAIN sockets : SocketOpen(s) /\ UNCHANGED envVars
    \/ \E s \in DOMAIN sockets : SocketClosing(s) /\ UNCHANGED envVars
    \/ \E s \in DOMAIN sockets : SocketClose(s) /\ UNCHANGED envVars
    \/ \E k \in DOMAIN timeouts :
           MayConnect(MaxSessSockets) /\ TimerFire(k) /\ UNCHANGED envVars
    \/ \E t \in SessReqTypes : SessionRequest(t) /\ UNCHANGED <<uiVars, ansiVars>>
    \/ SessionConnection
    \/ \E c \in DOMAIN conns : WsClose(c) /\ UNCHANGED envVars
    \/ \E c \in DOMAIN conns : ServerReads(c) /\ UNCHANGED <<uiVars, ansiVars>>
    \/ \E s \in DOMAIN sockets : ClientReads(s) /\ UNCHANGED <<uiVars, ansiVars>>

(***************************************************************************)
(* COMPONENTS  (src/unnamed/part_000 ExampleButtons,                       *)
(*              src/src/components/ConsoleLog.jsx ConsoleLog)              *)
(* A callback of a component (an effect, its cleanup, the continuation of  *)
(* an await) runs to completion: its calls into socket.js are made one     *)
(* after another, and no event is delivered to the page before todo is     *)
(* empty.  The continuation of an await is a microtask: it runs when the   *)
(* listener that resolved the promise has returned, before the next event. *)
(***************************************************************************)
MaxMounts == 3

Components == {"ExampleButtons", "ConsoleLog"}

\* a call the running callback has still to make
Call(op, m, t, arg) == [op |-> op, m |-> m, type |-> t, arg |-> arg]

\* part_000:16,25  ConsoleLog.jsx:22  the arrow function instance m passes to
\* subscribe(t, ...): a new function at every mount
Handler(m, t) == <<m, t>>

\* part_000:5-11  ConsoleLog.jsx:9-17  the state of a mounted instance:
\* jobs is the key set of the Map of useRef, calls the callbacks and state
\* setters its handlers invoked, cleanup what its effect returned
Instance(c, h) ==
    [component |-> c, mounted |-> TRUE, setConnectedState |-> h,
     cleanup |-> << >>, jobs |-> {}, started |-> {}, calls |-> << >>]

\* part_000:13-33  ConsoleLog.jsx:19-34  the body of the effect of instance m;
\* arg tells whether the function the call returns is kept for the cleanup
Effect(c, m) ==
    IF c = "ExampleButtons"
    THEN <<Call("startSocket", m, "", FALSE),
           Call("subscribe", m, "jobProgress", TRUE),
           Call("subscribe", m, "jobComplete", TRUE)>>
    ELSE <<Call("startSocket", m, "", FALSE),
           Call("subscribe", m, "log", FALSE),
           Call("subscribeConnectionState", m, "", TRUE)>>

\* the setConnectedState functions of the instances mounted so far
StateSetters == {mounts[m].setConnectedState : m \in DOMAIN mounts}

\* the mounted instances of component c
Mounted(c) ==
    {m \in DOMAIN mounts : mounts[m].component = c /\ mounts[m].mounted}

\* AdminPanel.jsx:6-14  React mounts the one instance of component c the
\* page has and runs its effect
Mount(c) ==
    /\ todo = << >>
    /\ Mounted(c) = {}
    /\ \E h \in IF c = "ConsoleLog" THEN StateHandlers \ StateSetters
                ELSE {Null} :
           mounts' = Append(mounts, Instance(c, h))
    /\ todo' = Effect(c, Len(mounts) + 1)
    /\ UNCHANGED <<clientVars, serverVars, netVars>>

\* part_000:34-37  ConsoleLog.jsx:34  React unmounts instance m and runs what
\* its effect returned
Unmount(m) ==
    /\ todo = << >>
    /\ mounts[m].mounted
    /\ mounts' = [mounts EXCEPT ![m].mounted = FALSE]
    /\ todo' = mounts[m].cleanup
    /\ UNCHANGED <<clientVars, serverVars, netVars>>

Calling(op) == todo # << >> /\ Head(todo).op = op

\* part_000:14  ConsoleLog.jsx:20  startSocket() of the effect
RunStartSocket ==
    /\ Calling("startSocket")
    /\ startSocket
    /\ todo' = Tail(todo)
    /\ UNCHANGED <<mounts, netVars>>

\* part_000:16,25,34-37  ConsoleLog.jsx:34  the function a call of the effect
\* returned is kept for the cleanup when c.arg says so
Keep(ms, c, call) ==
    IF c.arg THEN [ms EXCEPT ![c.m].cleanup = Append(@, call)] ELSE ms

\* part_000:16,25  ConsoleLog.jsx:22  subscribe(type, handler) of the effect
RunSubscribe ==
    /\ Calling("subscribe")
    /\ LET c == Head(todo)
       IN  /\ subscribe(c.type, Handler(c.m, c.type))
           /\ mounts' = Keep(mounts, c, Call("unsubscribe", c.m, c.type,
                                             Len(unsubscribers) + 1))
    /\ todo' = Tail(todo)
    /\ UNCHANGED netVars

\* ConsoleLog.jsx:34  subscribeConnectionState(setConnectedState)
RunSubscribeConnectionState ==
    /\ Calling("subscribeConnectionState")
    /\ LET c == Head(todo)
           h == mounts[c.m].setConnectedState
       IN  /\ subscribeConnectionState(h)
           /\ mounts' = Keep(mounts, c,
                             Call("unsubscribeConnectionState", c.m, "", h))
    /\ todo' = Tail(todo)
    /\ UNCHANGED netVars

\* part_000:35-36  unsubProgress(), unsubComplete()
RunUnsubscribe ==
    /\ Calling("unsubscribe")
    /\ unsubscribe(Head(todo).arg)
    /\ todo' = Tail(todo)
    /\ UNCHANGED <<mounts, netVars>>

\* ConsoleLog.jsx:34  the function subscribeConnectionState returned
RunUnsubscribeConnectionState ==
    /\ Calling("unsubscribeConnectionState")
    /\ unsubscribeConnectionState(Head(todo).arg)
    /\ todo' = Tail(todo)
    /\ UNCHANGED <<mounts, netVars>>

(***************************************************************************)
(* ansiToHtml  (src/unnamed/part_002:971-1073)                             *)
(*                                                                         *)
(* A string is the sequence of its characters.  An escape code the regular *)
(* expression of ansiToHtml matches is one element, and so are the prefix  *)
(* of a URL and each tag ansiToHtml writes.                                *)
(***************************************************************************)
MaxInput == 4        \* elements of a console message

\* part_002:990, 974  C_HEX.reset, C_HEX.red, and a code C_HEX has no
\* colour for (bold)
AnsiCodes == {"ESC[0m", "ESC[31m", "ESC[1m"}

\* the characters of the messages: the reserved characters, a letter, a
\* blank, and the two prefixes linkify knows
TextChars == {"&", "<", ">", "a", " ", "www.", "http://"}

\* part_002:1040  parseInt(match[1], 10)
ParseInt(tok) ==
    CASE tok = "ESC[0m" -> 0
      [] tok = "ESC[31m" -> 31
      [] tok = "ESC[1m" -> 1

\* part_002:971-992  C_HEX[code]
C_HEX(code) ==
    CASE code = 30 -> "#000000"
      [] code = 31 -> "#db6a6a"
      [] code = 32 -> "#05a905"
      [] code = 33 -> "#cece05"
      [] code = 34 -> "#03a9f4"
      [] code = 35 -> "#c965c9"
      [] code = 36 -> "#00bcd4"
      [] code = 37 -> "#ffffff"
      [] code = 90 -> "#808080"
      [] OTHER -> Undefined

RECURSIVE Replace(_, _, _)
\* String.prototype.replace with a global one-character pattern
Replace(str, ch, by) ==
    IF str = << >> THEN << >>
    ELSE (IF Head(str) = ch THEN by ELSE <<Head(str)>>)
             \o Replace(Tail(str), ch, by)

EscapeHtml_Identity(str) == str

\* part_002:1014-1019  escapeHtml
escapeHtml(str) ==
    Replace(Replace(Replace(str, "&", <<"&", "a", "m", "p", ";">>),
                    "<", <<"&", "l", "t", ";">>),
            ">", <<"&", "g", "t", ";">>)

\* \w of a regular expression, for the last character of an element
WordChars == {"a", "m", "p", "l", "t", "g"}

\* \s of a regular expression
Spaces == {" "}

\* part_002:1028  [^\s<]
UrlChar(ch) == ch \notin Spaces /\ ch # "<"

\* part_002:1028  urlRegex matches at position i: a word boundary, a
\* prefix, and at least one character of a URL
UrlAt(text, i) ==
    /\ text[i] \in {"www.", "http://"}
    /\ i = 1 \/ text[i - 1] \notin WordChars
    /\ i < Len(text)
    /\ UrlChar(text[i + 1])

RECURSIVE UrlEnd(_, _)
\* part_002:1028  [^\s<]+ is greedy: the last position of the match whose
\* characters reach position j
UrlEnd(text, j) ==
    IF j < Len(text) /\ UrlChar(text[j + 1]) THEN UrlEnd(text, j + 1) ELSE j

\* part_002:1031-1033  the replacement of one URL
Anchor(url) ==
    LET href == IF url[1] = "http://" THEN url ELSE <<"https://">> \o url
    IN  <<"<a href=\"">> \o href
            \o <<"\" target=\"_blank\" rel=\"noopener noreferrer\">">>
            \o url \o <<"</a>">>

RECURSIVE LinkifyFrom(_, _)
\* part_002:1030  text.replace(urlRegex, ...) from position i on
LinkifyFrom(text, i) ==
    IF i > Len(text) THEN << >>
    ELSE IF UrlAt(text, i)
         THEN Anchor(SubSeq(text, i, UrlEnd(text, i + 1)))
                  \o LinkifyFrom(text, UrlEnd(text, i + 1) + 1)
         ELSE <<text[i]>> \o LinkifyFrom(text, i + 1)

\* part_002:1027-1035  linkify
linkify(text) == LinkifyFrom(text, 1)

CloseTag == "</span>"

\* part_002:1062  `<span style="color:${C_HEX[code]}">`
OpenTag(color) == "<span style=\"color:" \o color \o "\">"

CloseSpan_Always(openSpan) == <<CloseTag>>

\* part_002:1049-1053, 1060, 1070  if (openSpan) result += "</span>"
CloseSpan(openSpan) == IF openSpan THEN <<CloseTag>> ELSE << >>

\* part_002:1039-1066  one turn of the loop: the escape code input[i],
\* with the text since the last escape code in front of it
AnsiMatch(acc, input, i) ==
    LET code == ParseInt(input[i])
        textChunk == SubSeq(input, acc.lastIndex, i - 1)
        result == acc.result \o escapeHtml(textChunk)
    IN  IF code = 0
        THEN [result |-> result \o CloseSpan(acc.openSpan),
              lastIndex |-> i + 1, openSpan |-> FALSE]
        ELSE IF C_HEX(code) # Undefined
        THEN [result |-> result \o CloseSpan(acc.openSpan)
                             \o <<OpenTag(C_HEX(code))>>,
              lastIndex |-> i + 1, openSpan |-> TRUE]
        ELSE [result |-> result, lastIndex |-> i + 1,
              openSpan |-> acc.openSpan]

RECURSIVE AnsiLoop(_, _, _)
\* part_002:1039  while ((match = ansiRegex.exec(input)) !== null), the
\* search being at position i
AnsiLoop(acc, input, i) ==
    IF i > Len(input) THEN acc
    ELSE IF input[i] \in AnsiCodes
         THEN AnsiLoop(AnsiMatch(acc, input, i), input, i + 1)
         ELSE AnsiLoop(acc, input, i + 1)

\* part_002:1000-1073  ansiToHtml
ansiToHtml(input) ==
    LET acc == AnsiLoop([result |-> << >>, lastIndex |-> 1,
                         openSpan |-> FALSE], input, 1)
        rest == SubSeq(input, acc.lastIndex, Len(input))
    IN  acc.result \o linkify(escapeHtml(escapeHtml(rest)))
            \o CloseSpan(acc.openSpan)

\* part_002:1166  message = args.join(" "): the caller of console.log puts
\* one more character or escape code into the message
Arg(tok) ==
    /\ html = << >>
    /\ message' = Append(message, tok)
    /\ UNCHANGED html

\* part_002:1172  C_HEX.ansiToHtml(message)
AnsiToHtml ==
    /\ message # << >>
    /\ html = << >>
    /\ html' = ansiToHtml(message)
    /\ UNCHANGED message

\* console messages of every content are converted
NextAnsi ==
    \/ \E tok \in TextChars \cup AnsiCodes :
           /\ Len(message) < MaxInput
           /\ Arg(tok)
           /\ UNCHANGED <<clientVars, serverVars, netVars, uiVars>>
    \/ AnsiToHtml /\ UNCHANGED <<clientVars, serverVars, netVars, uiVars>>

\* the components are mounted and unmounted
NextMounts ==
    \/ \E c \in Components :
           Len(mounts) < MaxMounts /\ Mount(c) /\ UNCHANGED ansiVars
    \/ \E m \in DOMAIN mounts : Unmount(m) /\ UNCHANGED ansiVars
    \/ RunStartSocket /\ UNCHANGED ansiVars
    \/ RunSubscribe /\ UNCHANGED ansiVars
    \/ RunSubscribeConnectionState /\ UNCHANGED ansiVars
    \/ RunUnsubscribe /\ UNCHANGED ansiVars
    \/ RunUnsubscribeConnectionState /\ UNCHANGED ansiVars

MaxPanelJobs == 1

MaxPanelMounts == 2

Idle_Always == TRUE

\* no callback of the page is running: the next event can be delivered
Idle == todo = << >>

\* part_000:40-42  startBigProcess() of instance m up to its await: the
\* request is made, the rest of the function waits for the promise
startBigProcess(m) ==
    /\ mounts[m].mounted
    /\ mounts[m].component = "ExampleButtons"
    /\ SessionRequest("startProcess")
    /\ mounts' = [mounts EXCEPT ![m].started = @ \cup {Len(promises) + 1}]
    /\ UNCHANGED todo

JobsSet_Skip(js, jobId) == js

\* part_000:57  jobs.current.set(jobId, {...})
JobsSet(js, jobId) == js \cup {jobId}

JobsDelete_Keep(js, jobId) == js

\* part_000:69  jobs.current.delete(jobId)
JobsDelete(js, jobId) == js \ {jobId}

\* part_000:16-32  ConsoleLog.jsx:22-32  the handler of an instance is
\* called with envelope env: a job event is passed to the callback of the
\* entry of its jobId, if there is one; onComplete deletes the entry
Deliver(inst, env) ==
    IF env.type = "log"
    THEN [inst EXCEPT !.calls = Append(@, [on |-> "setLogs", data |-> env])]
    ELSE IF env.payload.jobId \in inst.jobs
    THEN IF env.type = "jobComplete"
         THEN [inst EXCEPT
                  !.calls = Append(@, [on |-> "onComplete", data |-> env]),
                  !.jobs = JobsDelete(@, env.payload.jobId)]
         ELSE [inst EXCEPT
                  !.calls = Append(@, [on |-> "onProgress", data |-> env])]
    ELSE inst

\* the promises the listener settled in this step
Settled == {p \in DOMAIN promises :
               promises[p].calls = << >> /\ promises'[p].calls # << >>}

\* socket.js:79-121 with part_000:16-32,42  the "message" listener of socket
\* s for the oldest envelope travelling to it: the handlers it calls run, and
\* the function that awaits a promise it resolved is resumed next
PageReads(s) ==
    /\ Oldest(down, s) # 0
    /\ ClientReads(s)
    /\ LET env == down[Oldest(down, s)].env
       IN  /\ mounts' = [m \in DOMAIN mounts |->
                            IF Handler(m, env.type) \in SeqToSet(dispatched')
                            THEN Deliver(mounts[m], env)
                            ELSE mounts[m]]
           /\ todo' = IF \E m \in DOMAIN mounts : mounts[m].started \cap Settled # {}
                      THEN <<Call("resume",
                                  CHOOSE m \in DOMAIN mounts :
                                      mounts[m].started \cap Settled # {},
                                  "", env)>>
                      ELSE << >>

\* part_000:44-71  startBigProcess() after its await, res being the envelope
\* the promise was resolved with
RunResume ==
    /\ Calling("resume")
    /\ LET c == Head(todo)
           res == c.arg
       IN  mounts' = IF res.type = "error" \/ res.type # "startProcess"
                     THEN mounts
                     ELSE [mounts EXCEPT
                              ![c.m].jobs = JobsSet(@, res.payload.jobId)]
    /\ todo' = Tail(todo)
    /\ UNCHANGED <<clientVars, serverVars, netVars>>

\* part_002:1560-1578  the interval timer of job j fires; what it hands to
\* ws.send travels to the client
JobEvents(j) ==
    /\ Tick(j)
    /\ down' = down \o out'
    /\ UNCHANGED <<up, sentOn>>

\* the page with ExampleButtons, the server it talks to over a connection
\* that stays open, and the network between them; the button is clicked when
\* the server runs no job (the events of the last job may still travel)
NextPanel ==
    \/ /\ Idle /\ Len(mounts) < MaxPanelMounts /\ Mount("ExampleButtons")
       /\ UNCHANGED ansiVars
    \/ \E m \in DOMAIN mounts : Idle /\ Unmount(m) /\ UNCHANGED ansiVars
    \/ RunStartSocket /\ UNCHANGED ansiVars
    \/ RunSubscribe /\ UNCHANGED ansiVars
    \/ RunUnsubscribe /\ UNCHANGED ansiVars
    \/ RunResume /\ UNCHANGED ansiVars
    \/ \E s \in DOMAIN sockets : Idle /\ SocketOpen(s) /\ UNCHANGED envVars
    \/ Idle /\ SessionConnection /\ UNCHANGED <<uiVars, ansiVars>>
    \/ \E m \in DOMAIN mounts :
           /\ Idle
           /\ Len(promises) < MaxPanelJobs
           /\ up = << >> /\ \A j \in DOMAIN jobs : ~jobs[j].active
           /\ startBigProcess(m)
           /\ UNCHANGED ansiVars
    \/ \E c \in DOMAIN conns : Idle /\ ServerReads(c) /\ UNCHANGED <<uiVars, ansiVars>>
    \/ \E j \in DOMAIN jobs : Idle /\ JobEvents(j) /\ UNCHANGED <<uiVars, ansiVars>>
    \/ \E s \in DOMAIN sockets : Idle /\ PageReads(s) /\ UNCHANGED ansiVars

InitNet ==
    /\ up = <<>>
    /\ down = <<>>
    /\ sentOn = <<>>

InitUi ==
    /\ mounts = << >>
    /\ todo = << >>

InitAnsi ==
    /\ message = << >>
    /\ html = << >>

Init == InitClient /\ InitServer /\ InitNet /\ InitUi /\ InitAnsi

\* the client alone: the server's variables keep their initial value
SpecClient == Init /\ [][NextClient]_vars

\* the server alone: the client's variables keep their initial value
SpecServer == Init /\ [][NextServer]_vars

\* the connection manager alone
SpecConn == Init /\ [][NextConn]_vars

\* an armed reconnect timer fires after its delay (setTimeout, socket.js:46)
LiveConn ==
    SpecConn /\ WF_vars(\E k \in DOMAIN timeouts :
                            MayConnect(MaxConnSockets) /\ TimerFire(k)
                                                       /\ UNCHANGED envVars)

SpecObs == Init /\ [][NextObs]_vars

SpecJobs == Init /\ [][NextJobs]_vars

SpecDrivers == Init /\ [][NextDrivers]_vars

\* setInterval runs the callback of a job whose interval is not cleared
\* every 500 ms for as long as the process runs
LiveJobs ==
    SpecJobs /\ \A j \in 1 .. MaxDrivers : WF_vars(Tick(j) /\ UNCHANGED envVars)

\* the conversion of console messages alone
SpecAnsi == Init /\ [][NextAnsi]_vars

\* the components mounted and unmounted over socket.js
SpecMounts == Init /\ [][NextMounts]_vars

\* the page with ExampleButtons in a session with the server
SpecPanel == Init /\ [][NextPanel]_vars

\* the server's log history
SpecLog == Init /\ [][NextLog]_vars

\* the client's subscription dispatcher
SpecDispatch == Init /\ [][NextDispatch]_vars

\* one client and the server, joined by the network
SpecSession == Init /\ [][NextSession]_vars

(***************************************************************************)
(* Claims about the request correlator (SpecClient).                       *)
(***************************************************************************)
Resolved(k) == promises[k].calls # << >>

Allocated(k) == promises[k].id # NoId

C1_Inv ==
    \A k \in DOMAIN promises :
        /\ Len(promises[k].calls) <= 1
        /\ Resolved(k) =>
               \A i \in DOMAIN pendingRequests : pendingRequests[i] # k

C1_Stray ==
    \A s \in DOMAIN sockets : \A t \in ResponseTypes \cap InboundTypes :
      \A i \in InboundIds :
        (/\ ClientMessage(s, Env(t, i))
         /\ \E k \in DOMAIN promises : promises[k].id = i /\ Resolved(k))
        => UNCHANGED <<connVars, corrVars, subVars, dispatched>>

\* C1: the resolve function of every request is invoked at most once, its
\* entry is no longer in pendingRequests once it was invoked, and a response
\* that arrives with the id of a request already resolved invokes nothing and
\* changes no client state.
C1_AtMostOnceResolution == [](C1_Inv) /\ [][C1_Stray]_vars

\* a request was resolved and a further response carrying its id arrived
C1_Witness ==
    \E k \in DOMAIN promises :
        /\ Len(promises[k].calls) = 1
        /\ lastMessage.env.id = promises[k].id
        /\ lastMessage.env.type \in ResponseTypes
        /\ ~lastMessage.had

AllocatedBefore(k) == Cardinality({j \in 1 .. (k - 1) : Allocated(j)})

\* C2: the ids request() allocates are 0, 1, 2, ... in the order of the calls
\* that allocate one (so unique and strictly increasing), whatever failed
\* calls and close/reconnect cycles happen in between; requestId is the
\* number of ids allocated and is never reset.
C2_IdsUniqueIncreasing ==
    /\ \A k \in DOMAIN promises :
           Allocated(k) => promises[k].id = AllocatedBefore(k)
    /\ requestId = AllocatedBefore(Len(promises) + 1)

\* two ids were allocated, the second one on a socket opened by a reconnect
\* while the first request is still pending
C2_Witness ==
    /\ Len(promises) = 2
    /\ promises[1].id = 0 /\ promises[1].state = "pending"
    /\ promises[2].id = 1 /\ promises[2].state = "resolved"
    /\ sockets = <<"CLOSED", "OPEN">>

\* the correlated types as the specification enumerates them
SpecCorrelatedTypes ==
    {"timeRequest", "downloadLog", "getEnvValues", "setEnvValue",
     "startProcess", "test", "restartServer", "shutdownServer",
     "getUserAccounts", "getSecret", "switchDevice", "error"}

\* C4: when an envelope of a type the specification lists as correlated
\* arrives with the id of a pending request, that request is resolved with
\* the envelope and its entry leaves pendingRequests.
C4_SpecCorrelatedTypesResolve ==
    (lastMessage.had /\ lastMessage.env.type \in SpecCorrelatedTypes) =>
        /\ lastMessage.env.id \notin DOMAIN pendingRequests
        /\ \E k \in DOMAIN promises :
               /\ promises[k].id = lastMessage.env.id
               /\ promises[k].calls = <<lastMessage.env>>

(***************************************************************************)
(* Claims about the request dispatch (SpecServer).                         *)
(***************************************************************************)
Replies(o, c, i, types) ==
    {k \in DOMAIN o : o[k].to = c /\ o[k].env.id = i /\ o[k].env.type \in types}

\* C3: for every request of a correlated type received on an open
\* connection, the handler sends to that connection exactly one envelope
\* that carries the request's id and whose type is the request's type or
\* error.
C3_ExactlyOneReply ==
    [][\A c \in DOMAIN conns : \A t \in typeMsgRequests : \A i \in FrameIds :
         \A pl \in FramePayloads(t) :
           Message(c, Frame(t, i, pl)) =>
               Cardinality(Replies(out', c, i, {t, "error"})) = 1]_vars

\* C5: every response the handler of a request sends (every envelope that is
\* not a log event) carries the id of that request.
C5_IdRoundTrips ==
    [][\A c \in DOMAIN conns : \A t \in FrameTypes : \A i \in FrameIds :
         \A pl \in FramePayloads(t) :
           Message(c, Frame(t, i, pl)) =>
               \A k \in DOMAIN out' :
                   out'[k].env.type # "log" => out'[k].env.id = i]_vars

Increasing(q) == \A a, b \in DOMAIN q : a < b => q[a] < q[b]

JobIds == [j \in DOMAIN jobs |-> jobs[j].jobId]

\* C9: the values drawn from ID are never reused: jobIds increase in the
\* order the jobs were started, log ids increase in the order the lines were
\* printed, no jobId is the id of a log event, and every value drawn is below
\* the counter.
C9_CounterNeverReused ==
    /\ Increasing(JobIds)
    /\ Increasing(logIds)
    /\ \A j \in DOMAIN jobs : \A k \in DOMAIN logIds : jobs[j].jobId # logIds[k]
    /\ \A j \in DOMAIN jobs : jobs[j].jobId < ID
    /\ \A k \in DOMAIN logIds : logIds[k] < ID

\* two clients each started a job
C9_Witness ==
    /\ Len(jobs) = 2
    /\ jobs[1].ws # jobs[2].ws
    /\ jobs[1].jobId < jobs[2].jobId

(***************************************************************************)
(* Claims about the job drivers (SpecJobs, LiveJobs).                      *)
(***************************************************************************)
\* the events job j passed to send(), after the reply
Events(j) == Tail(jobs[j].calls)

Positions(q, t) == {k \in DOMAIN q : q[k].type = t}

C6_Job(j) ==
    LET ev == Events(j)
        prog == Positions(ev, "jobProgress")
        comp == Positions(ev, "jobComplete")
    IN  /\ \A a, b \in prog :
               a < b => ev[a].payload.progress < ev[b].payload.progress
        /\ Cardinality(comp) <= 1
        /\ \A k \in comp : k = Len(ev) /\ (k - 1) \in prog
        /\ jobs[j].active <=> comp = {}

\* C6: for every job the progress values of its jobProgress events increase
\* strictly; at most one jobComplete is emitted, exactly one once the
\* interval is cleared, right after the last jobProgress; and no event of
\* the job follows its jobComplete.
C6_JobOrdering == \A j \in DOMAIN jobs : C6_Job(j)

\* a job whose interval is cleared
C6_Witness ==
    \E j \in DOMAIN jobs :
        /\ ~jobs[j].active
        /\ jobs[j].calls[Len(jobs[j].calls)].type = "jobComplete"

C7_Job(j) ==
    LET calls == jobs[j].calls
        ev == Events(j)
        prog == Positions(ev, "jobProgress")
    IN  /\ calls[1] = SEnv("startProcess", jobs[j].id,
                           Payload(jobs[j].jobId, 0, "Starting..."))
        /\ \A k \in prog : k <= 10 /\ ev[k].payload.progress = 10 * k
        /\ \A k \in DOMAIN ev : k <= 10 => k \in prog
        /\ \A k \in Positions(ev, "jobComplete") :
               k = 11 /\ ev[k].payload.progress = 100
        /\ ~jobs[j].active => Len(ev) = 11

\* C7: the first envelope a job passes to send() is the reply {jobId,
\* "Starting...", progress 0} with the request's id; the jobProgress events
\* that follow carry 10, 20, ..., 100, ten in all once the job is done; the
\* jobComplete comes after them and carries progress 100.
C7_StartProcessScenario == \A j \in DOMAIN jobs : C7_Job(j)

\* a job that emitted its reply, ten jobProgress and its jobComplete
C7_Witness ==
    \E j \in DOMAIN jobs :
        /\ Len(jobs[j].calls) = 12
        /\ jobs[j].calls[1].type = "startProcess"
        /\ jobs[j].calls[11].payload.progress = 100
        /\ jobs[j].calls[12].type = "jobComplete"

OpenClients == {c \in clients : conns[c] = "OPEN"}

Targets(o) == {o[k].to : k \in DOMAIN o}

\* C8 as stated: every step of a job sends its events to all the clients
\* that are registered and open at that time.
C8_SentToAllOpenClients ==
    [][\A j \in DOMAIN jobs : Tick(j) => Targets(out') = OpenClients]_vars

\* C8 as amended: the events of a step go to the connection that started
\* the job and to no other one; when that connection is open it receives
\* every event the step emitted, in order.
C8_SentToOriginatorOnly ==
    [][\A j \in DOMAIN jobs :
         Tick(j) =>
           /\ Targets(out') \subseteq {jobs[j].ws}
           /\ conns[jobs[j].ws] = "OPEN" =>
                  [k \in DOMAIN out' |-> out'[k].env] =
                      SubSeq(jobs'[j].calls, Len(jobs[j].calls) + 1,
                             Len(jobs'[j].calls))]_vars

\* a step sent a jobProgress to the originator while another registered
\* client was open
C8_Witness ==
    \E k \in DOMAIN out :
        /\ out[k].env.type = "jobProgress"
        /\ \E c \in OpenClients : c # out[k].to

Done(j) == j \in DOMAIN jobs /\ jobs[j].percent = 100 /\ ~jobs[j].active

C10_Safe ==
    \A j \in DOMAIN jobs : jobs[j].percent >= 100 => Done(j)

C10_Silent ==
    \A j \in DOMAIN jobs :
        (Tick(j) /\ conns[jobs[j].ws] # "OPEN") => out' = << >>

\* C10 as stated: every started job eventually reaches progress 100 with its
\* interval cleared, and a step taken while the job's connection is not open
\* sends nothing.
C10_RunsToCompletion ==
    /\ \A j \in 1 .. MaxDrivers : (j \in DOMAIN jobs) ~> Done(j)
    /\ [](C10_Safe)
    /\ [][C10_Silent]_vars

\* C10 as amended: as long as the server process is not ended by a
\* restartServer or shutdownServer request, every started job reaches
\* progress 100 with its interval cleared, whatever connections are open.
C10_RunsToCompletionWhileRunning ==
    /\ \A j \in 1 .. MaxDrivers : (j \in DOMAIN jobs) ~> (Done(j) \/ ~running)
    /\ [](C10_Safe)
    /\ [][C10_Silent]_vars

\* a job ran to completion after its connection closed, nothing was sent
C10_Witness ==
    \E j \in DOMAIN jobs :
        /\ Done(j)
        /\ conns[jobs[j].ws] = "CLOSED"
        /\ Len(jobs[j].calls) = 12
        /\ clients = {}
        /\ out = << >>

(***************************************************************************)
(* Claims about concurrent job drivers (SpecDrivers).                      *)
(***************************************************************************)
C11_Job(j) ==
    LET ev == Events(j)
    IN  /\ Len(ev) <= 11
        /\ \A k \in DOMAIN ev :
               /\ ev[k].payload.jobId = jobs[j].jobId
               /\ ev[k].id = jobs[j].id
               /\ k <= 10 => /\ ev[k].type = "jobProgress"
                             /\ ev[k].payload.progress = 10 * k
               /\ k = 11 => /\ ev[k].type = "jobComplete"
                            /\ ev[k].payload.progress = 100
        /\ jobs[j].percent = 10 * Min(Len(ev), 10)
        /\ jobs[j].active <=> Len(ev) < 11

C11_OwnStateOnly ==
    \A j \in DOMAIN jobs :
        Tick(j) => \A k \in DOMAIN jobs \ {j} : jobs'[k] = jobs[k]

\* C11: with several jobs in flight, under every interleaving of their timer
\* ticks, each job emits jobProgress 10, 20, ..., 100 carrying its own jobId
\* and then its own single jobComplete, and a tick of one job leaves every
\* other job's progress, jobId and emitted events as they were.
C11_DriversIndependent ==
    /\ [](\A j \in DOMAIN jobs : C11_Job(j))
    /\ [][C11_OwnStateOnly]_vars

\* two jobs in flight whose ticks interleaved, at different progress
C11_Witness ==
    /\ Len(jobs) = 2
    /\ jobs[1].active /\ jobs[2].active
    /\ jobs[1].percent = 20
    /\ jobs[2].percent = 50
    /\ jobs[1].jobId # jobs[2].jobId

(***************************************************************************)
(* Claims about the reconnect state machine (SpecConn, LiveConn).          *)
(***************************************************************************)
\* the k-th delay of a run of reconnects, as the claim lists them
C12_Expected(k) ==
    CASE k = 1 -> 2000
      [] k = 2 -> 4000
      [] k = 3 -> 8000
      [] OTHER -> 10000

C12_Delays ==
    /\ Len(delays) = reconnectAttempts
    /\ \A k \in DOMAIN delays : delays[k] = C12_Expected(k)
    /\ \A k \in DOMAIN delays : delays[k] <= 10000
    /\ \A a, b \in DOMAIN delays : a <= b => delays[a] <= delays[b]

C12_OpenResets ==
    \A s \in DOMAIN sockets :
        SocketOpen(s) => reconnectAttempts' = 0 /\ delays' = << >>

\* C12: the delays scheduled since the last successful open are 2000, 4000,
\* 8000, 10000, 10000, ... (non-decreasing, never above 10000), and an open
\* event resets the attempt counter to 0, so that the next delay is 2000.
C12_BackoffSequence == [](C12_Delays) /\ [][C12_OpenResets]_vars

\* five reconnects were scheduled in a row: the cap was reached twice
C12_Witness ==
    /\ Len(delays) = 5
    /\ delays[4] = 10000
    /\ delays[5] = 10000

C13_OneTimer ==
    /\ Len(timeouts) <= 1
    /\ reconnectTimer # 0 <=> Len(timeouts) = 1
    /\ \A k \in DOMAIN timeouts : timeouts[k] = reconnectTimer

C13_CloseWhileArmed ==
    \A s \in DOMAIN sockets :
        (SocketClose(s) /\ reconnectTimer # 0) =>
            UNCHANGED <<timeouts, reconnectTimer, reconnectAttempts>>

\* C13: at most one reconnect timer is pending, and it is the one
\* reconnectTimer holds; a close event that arrives while a timer is armed
\* arms no second timer and leaves the attempt counter alone, under every
\* interleaving of close events, timer firings and startSocket() calls.
C13_AtMostOneTimer == [](C13_OneTimer) /\ [][C13_CloseWhileArmed]_vars

\* both sockets closed with one timer pending and no attempt counted since
\* the last open: the second close event found the timer armed
C13_Witness ==
    /\ Len(sockets) = 2
    /\ \A s \in DOMAIN sockets : sockets[s] = "CLOSED"
    /\ Len(timeouts) = 1
    /\ reconnectAttempts = 0

C15_Allowed ==
    {<<"Disconnected", "Connecting...">>, <<"Connecting...", "Connected">>,
     <<"Connecting...", "Disconnected">>, <<"Connected", "Disconnected">>}

\* C15: under every interleaving of startSocket() calls, open and close
\* events and timer firings, the connection state changes only from
\* Disconnected to Connecting, from Connecting to Connected, and from
\* Connecting or Connected to Disconnected.
C15_StateCycle ==
    [][connectionState' # connectionState =>
           <<connectionState, connectionState'>> \in C15_Allowed]_vars

C17_CurrentClosed(n) ==
    Len(sockets) = n /\ socket = n /\ sockets[n] = "CLOSED"

\* C17: whenever the current socket has closed, a new socket is eventually
\* created, provided armed timers eventually fire, and this after any number
\* of consecutive failures (up to the number of sockets the model creates).
C17_ReconnectsForever ==
    \A n \in 1 .. (MaxConnSockets - 1) :
        C17_CurrentClosed(n) ~> (Len(sockets) > n)

\* the fourth attempt after three consecutive failures
C17_Witness ==
    /\ Len(sockets) = 4
    /\ \A s \in 1 .. 3 : sockets[s] = "CLOSED"
    /\ sockets[4] = "CONNECTING"
    /\ reconnectAttempts = 3
    /\ timeouts = << >>

(***************************************************************************)
(* Claims about the connection-state observers (SpecObs).                  *)
(***************************************************************************)
C14_Idempotent ==
    /\ (startSocket /\ ConnectReturnsEarly) =>
           /\ UNCHANGED <<sockets, socket, connectionState, reconnectAttempts,
                          reconnectTimer, timeouts>>
           /\ stateCalls' = << >>
    /\ \A k \in DOMAIN timeouts :
           (TimerFire(k) /\ ConnectReturnsEarly) =>
               /\ UNCHANGED <<sockets, socket, connectionState,
                              reconnectAttempts>>
               /\ stateCalls' = << >>

\* C14: a call of startSocket() (or of connect() by the timer) made while
\* the current socket is connecting or open creates no socket, leaves the
\* connection state and the attempt counter unchanged (startSocket() the
\* reconnect timer too) and calls no state observer.
C14_ConnectIdempotent == [][C14_Idempotent]_vars

\* startSocket() was called on the open socket with observer o1 registered:
\* the call is the only event that leaves this state without observer calls
C14_Witness ==
    /\ sockets = <<"OPEN">>
    /\ connectionState = "Connected"
    /\ stateListeners = <<"o1">>
    /\ lastSeen = [h \in StateHandlers |->
                      IF h = "o1" THEN "Connected" ELSE Null]
    /\ stateCalls = << >>

C16_InSync ==
    \A h \in SeqToSet(stateListeners) : lastSeen[h] = connectionState

C16_Calls ==
    LET called == {stateCalls'[k].handler : k \in DOMAIN stateCalls'}
    IN  /\ called \subseteq SeqToSet(stateListeners')
        /\ \A k \in DOMAIN stateCalls' :
               stateCalls'[k].state = connectionState'
        /\ connectionState' # connectionState =>
               /\ called = SeqToSet(stateListeners)
               /\ Len(stateCalls') = Cardinality(called)
        /\ \A h \in StateHandlers :
               subscribeConnectionState(h) =>
                   stateCalls' = <<[handler |-> h, state |-> connectionState]>>

\* C16: a handler is called with the current state when it is registered and
\* exactly once, with the new state, on every change of the state, so the
\* last value each registered handler received is the connection state; no
\* event calls a handler that is not registered when the event ends.
C16_ObserversInSync == [](C16_InSync) /\ [][C16_Calls]_vars

\* o1 unsubscribed and kept a stale value; o2, still registered, was just
\* called with the state the connection moved to
C16_Witness ==
    /\ stateListeners = <<"o2">>
    /\ lastSeen["o1"] \notin {Null, connectionState}
    /\ stateCalls = <<[handler |-> "o2", state |-> connectionState]>>
    /\ lastSeen["o2"] = connectionState

(***************************************************************************)
(* Further claims about the request correlator (SpecClient).               *)
(***************************************************************************)
C18_Fails ==
    \A t \in ClientReqTypes :
        (request(t) /\ SocketNotOpen) =>
            /\ promises'[Len(promises')].state = "rejected"
            /\ promises'[Len(promises')].id = NoId
            /\ UNCHANGED <<pendingRequests, requestId>>

C18_NothingQueued ==
    \A k \in DOMAIN promises :
        promises[k].state = "rejected" =>
            /\ promises[k].id = NoId
            /\ promises[k].calls = << >>
            /\ \A i \in DOMAIN pendingRequests : pendingRequests[i] # k

\* C18: a request() made while the socket is absent or not open fails at
\* once: its promise is rejected, no id is allocated, so no frame is handed
\* to the socket, and no entry is added to pendingRequests, then or later.
C18_FailsWhenNotOpen == [](C18_NothingQueued) /\ [][C18_Fails]_vars

\* a request made after the socket closed was rejected while an earlier
\* request is still pending
C18_Witness ==
    /\ Len(promises) = 2
    /\ promises[1].state = "pending"
    /\ promises[2].state = "rejected"
    /\ sockets[socket] = "CLOSED"
    /\ DOMAIN pendingRequests = {0}

\* C19: a response that carries the id of a pending request and a type that
\* is neither the request's type nor error does not resolve the request.
C19_TypeChecked ==
    [][\A s \in DOMAIN sockets : \A t \in InboundTypes : \A i \in InboundIds :
         (/\ ClientMessage(s, Env(t, i))
          /\ HasResolver(pendingRequests, Env(t, i))
          /\ t \notin {promises[pendingRequests[i]].type, "error"})
         => promises'[pendingRequests[i]].state = "pending"]_vars

C20_ConnectionEvent ==
    \/ \E s \in DOMAIN sockets :
           SocketClose(s) \/ SocketClosing(s) \/ SocketOpen(s)
    \/ \E k \in DOMAIN timeouts : TimerFire(k)
    \/ startSocket

C20_Untouched ==
    C20_ConnectionEvent => UNCHANGED <<pendingRequests, promises, requestId>>

\* C20: close, timer and open events (and startSocket) neither resolve nor
\* reject nor retransmit a pending request: the pending table, the promises
\* and the id counter are unchanged by them.
C20_PendingAbandoned == [][C20_Untouched]_vars

\* a request was pending when its socket closed; the client reconnected and
\* the request is still pending, its entry still in the table
C20_Witness ==
    /\ Len(sockets) = 2
    /\ sockets = <<"CLOSED", "OPEN">>
    /\ socket = 2
    /\ Len(promises) = 1
    /\ promises[1].state = "pending"
    /\ DOMAIN pendingRequests = {0}
    /\ reconnectTimer = 0

(***************************************************************************)
(* Claims about a session of the client with the server (SpecSession).     *)
(***************************************************************************)
\* no two promises were given the same request id
C21_NoReuse ==
    \A k \in DOMAIN promises : \A m \in DOMAIN promises :
        (k # m /\ promises[k].id # NoId) => promises[k].id # promises[m].id

\* an envelope travelling to socket s with an id carries the id of a
\* request whose frame was handed to socket s
C21_Echo ==
    \A e \in DOMAIN down :
        down[e].env.id # NoId =>
            \E k \in DOMAIN promises :
                sentOn[k] = down[e].to /\ promises[k].id = down[e].env.id

\* an envelope read on socket s changes only promises sent on socket s
C21_SameConnection ==
    [][\A s \in DOMAIN sockets :
          ClientReads(s) =>
              \A k \in DOMAIN promises :
                  promises'[k] # promises[k] => sentOn[k] = s]_vars

\* C21: a response received on a later connection never resolves a request
\* sent on an earlier connection: request ids are never allocated twice, the
\* server answers on a connection only with ids it received on it, and an
\* envelope read on a socket settles only a request sent on that socket.
C21_LaterNeverResolvesEarlier ==
    /\ [](C21_NoReuse /\ C21_Echo)
    /\ C21_SameConnection

\* the request sent on socket 1 is still pending after socket 1 closed, and
\* the request sent on socket 2 was resolved by the response read on socket 2
C21_Witness ==
    /\ sentOn = <<1, 2>>
    /\ sockets[1] = "CLOSED"
    /\ promises[1].state = "pending"
    /\ promises[2].state = "resolved"
    /\ Len(promises[2].calls) = 1

(***************************************************************************)
(* Claims about the subscription dispatcher (SpecDispatch).                *)
(***************************************************************************)
\* handler h is in the Set of type t
Registered(ml, t, h) == h \in SeqToSet(Subscribers(ml, t))

\* messageListeners.get(type) of every closure is a Set
C22_NoError ==
    \A u \in DOMAIN unsubscribers :
        unsubscribers[u].type \in DOMAIN messageListeners

\* a call of a closure leaves its handler out of the Set of its type, and a
\* call made when the handler is out already leaves the table as it is
C22_Step ==
    [][\A u \in DOMAIN unsubscribers :
          unsubscribe(u) =>
              LET t == unsubscribers[u].type
                  h == unsubscribers[u].handler
              IN  /\ ~Registered(messageListeners', t, h)
                  /\ ~Registered(messageListeners, t, h)
                         => messageListeners' = messageListeners]_vars

\* C22: unsubscribe is idempotent: a second call of the function returned by
\* subscribe(type, handler) raises no error and leaves the listener table as
\* after the first call, with no instance of the handler for that type.
C22_UnsubscribeIdempotent == []C22_NoError /\ C22_Step

\* the closure of h1 was called twice; h2, subscribed meanwhile for the same
\* type, is still registered
C22_Witness ==
    /\ Len(unsubscribers) = 2
    /\ unsubscribers[1] = [type |-> "log", handler |-> "h1", calls |-> 2]
    /\ unsubscribers[2] = [type |-> "log", handler |-> "h2", calls |-> 0]
    /\ messageListeners["log"] = <<"h2">>

NoDuplicates(q) == \A a \in DOMAIN q : \A b \in DOMAIN q : a # b => q[a] # q[b]

\* the handlers of q that are in r too, in the order of q
Common(q, r) == SelectSeq(q, LAMBDA x : x \in SeqToSet(r))

\* a subscription-type envelope invokes the handlers registered for its type
\* and no other, each once, in the order of the Set
C23_Dispatch ==
    [][\A s \in DOMAIN sockets : \A t \in DispatchTypes \ ResponseTypes :
          \A i \in DispatchIds :
              ClientMessage(s, Env(t, i)) =>
                  /\ NoDuplicates(dispatched')
                  /\ \A h \in Handlers :
                         h \in SeqToSet(dispatched')
                             <=> Registered(messageListeners, t, h)
                  /\ dispatched' =
                         Common(Subscribers(messageListeners, t), dispatched')]_vars

\* the order of the Set is the order of registration: a handler not yet
\* registered is put after the registered ones, a handler already registered
\* keeps its place, and a removal keeps the order of the others
C23_RegistrationOrder ==
    [][/\ \A t \in ClientSubTypes : \A h \in Handlers :
              subscribe(t, h) =>
                  /\ Registered(messageListeners, t, h)
                         => messageListeners'[t] = messageListeners[t]
                  /\ ~Registered(messageListeners, t, h)
                         => messageListeners'[t] =
                                Append(Subscribers(messageListeners, t), h)
       /\ \A u \in DOMAIN unsubscribers :
              unsubscribe(u) =>
                  \A t \in DOMAIN messageListeners :
                      messageListeners'[t] =
                          Common(messageListeners[t], messageListeners'[t])]_vars

\* C23: when a subscription-type envelope arrives, every handler registered
\* for its type at that moment is invoked exactly once with the envelope, in
\* the order in which the handlers were registered, and no handler of
\* another type is invoked.
C23_Multicast == C23_Dispatch /\ C23_RegistrationOrder

\* h2 was registered for log before h1: a log envelope invoked h2, then h1
C23_Witness ==
    /\ lastMessage.env.type = "log"
    /\ Len(unsubscribers) = 2
    /\ unsubscribers[1].handler = "h2"
    /\ unsubscribers[2].handler = "h1"
    /\ dispatched = <<"h2", "h1">>

\* C24: calling an unsubscribe function removes exactly the registration it
\* was returned for: every other registration whose handler is registered
\* and whose own unsubscribe function was never called stays registered,
\* also a registration of the same handler function for the same type made
\* by a different subscribe call.
C24_RemovesOnlyItsOwn ==
    [][\A u \in DOMAIN unsubscribers :
          unsubscribe(u) =>
              \A v \in DOMAIN unsubscribers \ {u} :
                  (/\ unsubscribers[v].calls = 0
                   /\ Registered(messageListeners, unsubscribers[v].type,
                                 unsubscribers[v].handler))
                      => Registered(messageListeners', unsubscribers[v].type,
                                    unsubscribers[v].handler)]_vars

\* C25: an inbound envelope of a subscription type never invokes or removes
\* a pending request resolver, also when its id is a pending request's id,
\* and when no handler is registered for its type it is dropped: no handler
\* and no observer is called and no client state changes.
C25_SubscriptionOnly ==
    [][\A s \in DOMAIN sockets : \A t \in DispatchTypes \cap typeMsgSubscribe :
          \A i \in DispatchIds :
              ClientMessage(s, Env(t, i)) =>
                  /\ UNCHANGED <<pendingRequests, promises, requestId>>
                  /\ Subscribers(messageListeners, t) = << >> =>
                         /\ dispatched' = << >>
                         /\ stateCalls' = << >>
                         /\ UNCHANGED <<connVars, corrVars, subVars,
                                        stateListeners, lastSeen>>]_vars

\* a jobComplete envelope carrying the id of the pending request arrived
\* while only log had a handler: nothing was invoked, the request is pending
C25_Witness ==
    /\ lastMessage = [env |-> Env("jobComplete", 0), had |-> TRUE]
    /\ dispatched = << >>
    /\ Len(promises) = 1
    /\ promises[1].state = "pending"
    /\ promises[1].calls = << >>
    /\ 0 \in DOMAIN pendingRequests
    /\ "log" \in DOMAIN messageListeners
    /\ messageListeners["log"] # << >>

(***************************************************************************)
(* Claims about protocol errors and routing (SpecServer).                  *)
(***************************************************************************)
\* the frame types that are no request type of the protocol, type missing
\* included
UnknownTypes == FrameTypes \ typeMsgRequests

\* C26: a well-formed frame whose type is missing or is no request type gets
\* exactly one reply, sent to the sending connection only: an error envelope
\* with message "Unknown action" that carries the frame's id.
C26_UnknownAction ==
    [][\A c \in DOMAIN conns : \A t \in UnknownTypes : \A i \in FrameIds :
          Message(c, Frame(t, i, NoPayload)) =>
              out' = <<[to |-> c,
                        env |-> SEnv("error", i, Text("Unknown action"))]>>]_vars

\* with two clients open, the reply to a frame of unknown type with id 1 on
\* connection 2, the counter having advanced for it
C26_Witness ==
    /\ OpenClients = {1, 2}
    /\ ID = 1
    /\ logIds = << >>
    /\ jobs = << >>
    /\ out = <<[to |-> 2, env |-> SEnv("error", 1, Text("Unknown action"))]>>

\* C27: a frame that is not well-formed structured data gets exactly one
\* reply to the sending connection, an error envelope with message "Invalid
\* message format" and no id, and nothing is sent to another connection.
C27_InvalidFormat ==
    [][\A c \in DOMAIN conns :
          Malformed(c) =>
              out' = <<[to |-> c,
                        env |-> SEnv("error", NoId,
                                     Text("Invalid message format"))]>>]_vars

\* with two clients open and no frame parsed so far, the reply to a malformed
\* frame on connection 2
C27_Witness ==
    /\ OpenClients = {1, 2}
    /\ ID = 0
    /\ out = <<[to |-> 2,
                env |-> SEnv("error", NoId, Text("Invalid message format"))]>>

\* a frame that is malformed or of unknown type arrives on connection c
C28_BadFrame(c) ==
    \/ Malformed(c)
    \/ \E t \in UnknownTypes : \E i \in FrameIds :
           Message(c, Frame(t, i, NoPayload))

\* the requests whose answer does not carry a value drawn from the counter
C28_Probes ==
    {Frame(t, 0, NoPayload) : t \in {"timeRequest", "getEnvValues",
                                     "downloadLog"}}

\* what connection c is sent for frame m
C28_Answer(c, m) ==
    IF running /\ conns[c] = "OPEN"
    THEN OnMessage(Current, conns, clients, c, m).out
    ELSE << >>

\* C28: no protocol error is fatal: after the reply to a malformed or
\* unknown-type frame the server runs, the offending connection is open and
\* registered, the jobs, the log history and the environment are as before,
\* the counter advanced by one at most, and a valid request on any open
\* connection is answered as before.
C28_NotFatal ==
    [][\A c \in DOMAIN conns :
          C28_BadFrame(c) =>
              /\ running'
              /\ conns'[c] = "OPEN" /\ c \in clients'
              /\ UNCHANGED <<conns, clients, jobs, CURRENT_LOG, logIds,
                             ENV_VALUES>>
              /\ ID' \in {ID, NextID(ID)}
              /\ \A d \in DOMAIN conns : \A m \in C28_Probes :
                     C28_Answer(d, m)' = C28_Answer(d, m)]_vars

\* a frame without type arrived on connection 1 after a job was started and
\* a line was logged: the job, the log and both connections are in place
C28_Witness ==
    /\ OpenClients = {1, 2}
    /\ running
    /\ Len(jobs) = 1
    /\ out = <<[to |-> 1, env |-> SEnv("error", 0, Text("Unknown action"))]>>

\* the envelopes of o that are not log events
Responses(o) == SelectSeq(o, LAMBDA e : e.env.type # "log")

\* the responses connection d would be sent for frame m
C29_Answer(d, m) ==
    IF running /\ conns[d] = "OPEN"
    THEN Responses(OnMessage(Current, conns, clients, d, m).out)
    ELSE << >>

\* C29 as amended: a correlated response is sent only to the connection
\* that issued the request: with several clients connected, no other client
\* receives a response envelope of the request, whatever ids the clients use.
C29_RoutedToIssuerOnly ==
    \A c \in DOMAIN conns : \A t \in FrameTypes : \A i \in FrameIds :
        \A pl \in FramePayloads(t) :
            Targets(C29_Answer(c, Frame(t, i, pl))) \subseteq {c}

C29_Probes ==
    {Frame(t, 0, NoPayload) : t \in {"timeRequest", "getEnvValues",
                                     "startProcess"}}

\* a frame of connection c leaves the responses to the requests of every
\* other connection as they were
C29_Independent ==
    [][\A c \in DOMAIN conns : \A t \in FrameTypes : \A i \in FrameIds :
         \A pl \in FramePayloads(t) :
           Message(c, Frame(t, i, pl)) =>
               \A d \in DOMAIN conns \ {c} : \A m \in C29_Probes :
                   C29_Answer(d, m)' = C29_Answer(d, m)]_vars

\* C29 as stated: a correlated response is sent only to the connection that
\* issued the request, and what one client receives as responses does not
\* depend on the requests of the others.
C29_RoutedAndIndependent == []C29_RoutedToIssuerOnly /\ C29_Independent

\* with two clients open, the response to the timeRequest of connection 2
C29_Witness ==
    /\ OpenClients = {1, 2}
    /\ out = <<[to |-> 2, env |-> SEnv("timeRequest", 0, Text("time"))]>>

\* the connections that connected and whose close event has not fired
C30_Connected == {c \in DOMAIN conns : conns[c] # "CLOSED"}

\* the envelopes of o with envelope env that went to connection c
C30_Sent(o, env, c) == {k \in DOMAIN o : o[k].env = env /\ o[k].to = c}

\* C30: broadcast(envelope) sends the envelope once to every registered
\* client whose channel is open and to no other one, and leaves the registry
\* as it is; the registry holds exactly the connections that connected and
\* have not fired their close event, whatever the order of connects, closes
\* and broadcasts.
C30_BroadcastOnce ==
    /\ [](clients = C30_Connected)
    /\ [][\A k \in DOMAIN out' :
             out'[k].env.type = "log" =>
                 /\ UNCHANGED clients
                 /\ \A c \in DOMAIN conns :
                        Cardinality(C30_Sent(out', out'[k].env, c)) =
                            IF c \in OpenClients THEN 1 ELSE 0]_vars

\* a line was broadcast while connection 1 was closing and still registered:
\* it went to connection 2 alone
C30_Witness ==
    /\ conns = <<"CLOSING", "OPEN">>
    /\ clients = {1, 2}
    /\ Len(out) = 1
    /\ out[1].to = 2
    /\ out[1].env.type = "log"

(***************************************************************************)
(* Claims about the log history (SpecServer, SpecLog).                     *)
(***************************************************************************)
\* the elements q' has after those of q
Added(q, r) == SubSeq(r, Len(q) + 1, Len(r))

IsPrefix(q, r) == Len(q) <= Len(r) /\ SubSeq(r, 1, Len(q)) = q

\* the log events of o sent to connection c, in the order they were sent
LogEvents(o, c) ==
    SelectSeq(o, LAMBDA e : e.to = c /\ e.env.type = "log")

\* the log events of lines with ids, in the order of the lines
LogLines(lines, ids) ==
    [k \in DOMAIN lines |-> SEnv("log", ids[k], Text(lines[k]))]

\* a console call appends its line to the history once
C31_AppendedOnce ==
    [][\A level \in ConsoleLevels :
          ConsoleCall(level) => CURRENT_LOG' = Append(CURRENT_LOG, level)]_vars

\* in every step the history keeps its entries and their order, and every
\* client open in the step is sent the lines the step appended, each once and
\* in the order they were appended; a client that is not open is sent none
C31_BroadcastInOrder ==
    [][/\ IsPrefix(CURRENT_LOG, CURRENT_LOG')
       /\ IsPrefix(logIds, logIds')
       /\ Len(CURRENT_LOG') = Len(logIds')
       /\ \A c \in DOMAIN conns :
              [k \in DOMAIN LogEvents(out', c) |-> LogEvents(out', c)[k].env] =
                  IF c \in OpenClients
                  THEN LogLines(Added(CURRENT_LOG, CURRENT_LOG'),
                                Added(logIds, logIds'))
                  ELSE << >>]_vars

\* C31: every intercepted log line is appended exactly once to the history
\* and broadcast as exactly one log event to every client open at that
\* moment; the order of the history and the order of the log events each
\* client is sent are the order in which the lines were emitted.
C31_LoggedOnceInOrder ==
    /\ [](Increasing(logIds))
    /\ C31_AppendedOnce
    /\ C31_BroadcastInOrder

\* the second of two lines was just emitted with two clients open: both were
\* sent it once, and the history holds the two lines in order
C31_Witness ==
    /\ OpenClients = {1, 2}
    /\ CURRENT_LOG = <<"warn", "error">>
    /\ logIds = <<0, 1>>
    /\ out = <<[to |-> 1, env |-> SEnv("log", 1, Text("error"))],
               [to |-> 2, env |-> SEnv("log", 1, Text("error"))]>>

RECURSIVE C32_Text(_)
\* the entries of the history in order, a newline between two entries
C32_Text(lines) ==
    IF lines = << >> THEN ""
    ELSE IF Len(lines) = 1 THEN lines[1]
    ELSE C32_Text(SubSeq(lines, 1, Len(lines) - 1)) \o "\n" \o lines[Len(lines)]

\* the reply to a downloadLog request: the file name and the joined history
C32_Reply ==
    [][\A c \in DOMAIN conns : \A i \in FrameIds :
          Message(c, Frame("downloadLog", i, NoPayload)) =>
              /\ out' = <<[to |-> c,
                           env |-> SEnv("downloadLog", i,
                                        File("test.log",
                                             C32_Text(CURRENT_LOG)))]>>
              /\ UNCHANGED CURRENT_LOG]_vars

\* no step removes or reorders entries of the history
C32_AppendOnly == [][IsPrefix(CURRENT_LOG, CURRENT_LOG')]_vars

\* C32: a downloadLog request returns the fixed file name with the text of
\* every history entry appended before the request, in order and joined by
\* newlines; the request does not modify the history, and no operation
\* removes or reorders history entries.
C32_DownloadLog == C32_Reply /\ C32_AppendOnly

\* a download after two lines returned both lines, in order
C32_Witness ==
    /\ CURRENT_LOG = <<"warn", "log">>
    /\ Len(out) = 1
    /\ out[1].env.type = "downloadLog"
    /\ out[1].env.payload.name = "test.log"
    /\ out[1].env.payload.text = "warn\nlog"

(***************************************************************************)
(* Claims about the components (SpecMounts).                               *)
(***************************************************************************)
\* instance m has a handler in the listener tables
HasHandler(m) ==
    \/ \E t \in DOMAIN messageListeners :
           Handler(m, t) \in SeqToSet(messageListeners[t])
    \/ /\ mounts[m].component = "ConsoleLog"
       /\ mounts[m].setConnectedState \in SeqToSet(stateListeners)

\* C39: handlers do not outlive the component that registered them: once
\* the cleanup of an unmounted instance has run, none of its handlers is
\* registered, and the number of registered log handlers is the number of
\* mounted ConsoleLog components.
C39_NoHandlerOutlives ==
    todo = << >> =>
        /\ \A m \in DOMAIN mounts : ~mounts[m].mounted => ~HasHandler(m)
        /\ Len(Subscribers(messageListeners, "log")) =
               Cardinality(Mounted("ConsoleLog"))

(***************************************************************************)
(* Claims about the jobs of ExampleButtons (SpecPanel).                    *)
(***************************************************************************)
\* the envelope the message listener of socket s reads next
Arriving(s) == down[Oldest(down, s)].env

JobEventTypes == {"jobProgress", "jobComplete"}

\* the calls of callback on of instance inst for job jobId
CallsOf(inst, on, jobId) ==
    SelectSeq(inst.calls,
              LAMBDA c : c.on = on /\ c.data.payload.jobId = jobId)

\* the entry of a job leaves the map only when the jobComplete event of its
\* jobId is dispatched, and then onComplete is called with the event
C33_RemovedByJobComplete ==
    [][\A m \in DOMAIN mounts : \A jobId \in mounts[m].jobs :
          jobId \notin mounts'[m].jobs =>
              \E s \in DOMAIN sockets :
                  /\ PageReads(s)
                  /\ Arriving(s).type = "jobComplete"
                  /\ Arriving(s).payload.jobId = jobId
                  /\ mounts'[m].calls =
                         Append(mounts[m].calls,
                                [on |-> "onComplete", data |-> Arriving(s)])]_vars

\* the jobComplete event of a job that has an entry removes the entry, and a
\* job event whose jobId has no entry calls nothing and changes nothing
C33_Dispatch ==
    [][\A s \in DOMAIN sockets :
          (PageReads(s) /\ Arriving(s).type \in JobEventTypes) =>
              \A m \in DOMAIN mounts :
                  IF Arriving(s).payload.jobId \in mounts[m].jobs
                  THEN (/\ Arriving(s).type = "jobComplete"
                        /\ Registered(messageListeners, "jobComplete",
                                      Handler(m, "jobComplete")))
                           => Arriving(s).payload.jobId \notin mounts'[m].jobs
                  ELSE mounts'[m] = mounts[m]]_vars

\* onComplete ran at most once for a job, and then the job has no entry
C33_Once ==
    \A m \in DOMAIN mounts : \A j \in DOMAIN jobs :
        /\ Len(CallsOf(mounts[m], "onComplete", jobs[j].jobId)) <= 1
        /\ CallsOf(mounts[m], "onComplete", jobs[j].jobId) # << >>
               => jobs[j].jobId \notin mounts[m].jobs

\* C33: the entry of a job in the jobs map is removed exactly once, when the
\* jobComplete event for its jobId is dispatched, and by no other event;
\* jobProgress and jobComplete events whose jobId has no entry invoke no job
\* callback and change nothing.
C33_EntryRemovedOnce ==
    /\ []C33_Once
    /\ C33_RemovedByJobComplete
    /\ C33_Dispatch

\* the job of the instance ran to its end: ten onProgress calls and one
\* onComplete call, and the entry is gone
C33_Witness ==
    /\ Len(mounts) = 1
    /\ mounts[1].mounted
    /\ mounts[1].jobs = {}
    /\ Len(jobs) = 1
    /\ Len(CallsOf(mounts[1], "onProgress", jobs[1].jobId)) = 10
    /\ Len(CallsOf(mounts[1], "onComplete", jobs[1].jobId)) = 1

\* the instance whose startBigProcess() made the request of job j
Starter(j) ==
    CHOOSE m \in DOMAIN mounts :
        \E p \in mounts[m].started :
            promises[p].id = jobs[j].id /\ sentOn[p] = jobs[j].ws

\* the events of job jobId that travel to the client
InFlight(jobId) ==
    LET es == SelectSeq(down, LAMBDA e : /\ e.env.type \in JobEventTypes
                                         /\ e.env.payload.jobId = jobId)
    IN  [k \in DOMAIN es |-> es[k].env]

\* the events of job jobId the callbacks of instance inst were called with
Received(inst, jobId) ==
    LET cs == SelectSeq(inst.calls,
                        LAMBDA c : /\ c.on \in {"onProgress", "onComplete"}
                                   /\ c.data.payload.jobId = jobId)
    IN  [k \in DOMAIN cs |-> cs[k].data]

\* the events the server sent for job j after the response
Sent(j) == Tail(jobs[j].calls)

\* no event of a job whose component is mounted was dropped: the events its
\* callbacks received, followed by those that travel, are the events sent
C38_NothingLost ==
    \A j \in DOMAIN jobs :
        mounts[Starter(j)].mounted =>
            Received(mounts[Starter(j)], jobs[j].jobId)
                \o InFlight(jobs[j].jobId) = Sent(j)

\* when a job event is dispatched, the entry of the job is in the map
C38_EntryFirst ==
    [][\A s \in DOMAIN sockets : \A j \in DOMAIN jobs :
          (/\ PageReads(s)
           /\ Arriving(s).type \in JobEventTypes
           /\ Arriving(s).payload.jobId = jobs[j].jobId
           /\ mounts[Starter(j)].mounted)
              => jobs[j].jobId \in mounts[Starter(j)].jobs]_vars

\* C38: no job event is lost to a registration race: for a job started by
\* this client over a connection that stays open, the entry of the job is in
\* the jobs map before the first jobProgress of its jobId is dispatched, so
\* every jobProgress and the jobComplete reach the callbacks of the job.
C38_NoRegistrationRace == []C38_NothingLost /\ C38_EntryFirst

\* the first jobProgress travelled behind the response and was dispatched
\* right after the continuation of startBigProcess() added the entry
C38_Witness ==
    /\ Len(mounts) = 1
    /\ mounts[1].mounted
    /\ Len(jobs) = 1
    /\ mounts[1].jobs = {jobs[1].jobId}
    /\ Len(Received(mounts[1], jobs[1].jobId)) = 1
    /\ Len(InFlight(jobs[1].jobId)) >= 1

(***************************************************************************)
(* Claims about ansiToHtml (SpecAnsi).                                     *)
(***************************************************************************)
\* the opening tags ansiToHtml can write
OpenTags == {OpenTag(C_HEX(code)) : code \in (30 .. 37) \cup {90}}

\* the span tags of an output, in order
SpanTags(tokens) == SelectSeq(tokens, LAMBDA t : t \in OpenTags \cup {CloseTag})

\* the escape codes of a message that have a colour
ColorCodes(input) ==
    SelectSeq(input, LAMBDA t : /\ t \in AnsiCodes
                                /\ C_HEX(ParseInt(t)) # Undefined)

\* C34: for every input of text, recognized colour codes, unrecognized codes
\* and reset codes in any order, the span tags of the output are balanced:
\* opening and closing tags alternate from an opening tag to a closing tag
\* (every span is closed exactly once, spans never nest, no closing tag
\* without an open span), one span per colour code, and no character of the
\* text is left that could begin or end a tag.
C34_BalancedSpans ==
    LET tags == SpanTags(html)
    IN  /\ Len(tags) % 2 = 0
        /\ \A k \in DOMAIN tags :
               IF k % 2 = 1 THEN tags[k] \in OpenTags ELSE tags[k] = CloseTag
        /\ html # << >> => Len(tags) = 2 * Len(ColorCodes(message))
        /\ \A k \in DOMAIN html : html[k] \notin {"<", ">"}

\* a reset with no span open, a colour code, a code without colour and a
\* text: one span, closed at the end of the input
C34_Witness ==
    /\ message = <<"ESC[0m", "ESC[31m", "ESC[1m", "<">>
    /\ html = <<OpenTag("#db6a6a"), "&", "a", "m", "p", ";", "l", "t", ";",
                CloseTag>>

RECURSIVE C35_Segments(_, _)
\* the text segments of a message: the text between its escape codes, cur
\* being the segment read so far
C35_Segments(input, cur) ==
    IF input = << >> THEN <<cur>>
    ELSE IF Head(input) \in AnsiCodes
         THEN <<cur>> \o C35_Segments(Tail(input), << >>)
         ELSE C35_Segments(Tail(input), Append(cur, Head(input)))

RECURSIVE C35_Markup(_)
\* every segment escaped once and then linkified
C35_Markup(segments) ==
    IF segments = << >> THEN << >>
    ELSE linkify(escapeHtml(Head(segments))) \o C35_Markup(Tail(segments))

\* C35 (as stated): ansiToHtml escapes the reserved characters of every text
\* segment exactly once, before markup is inserted, and linkifies the URLs
\* of every text segment, before or after an escape code: apart from the
\* span tags, the output is every segment escaped once and linkified.
C35_EscapedOnceAndLinkified ==
    html # << >> =>
        SelectSeq(html, LAMBDA t : t \notin OpenTags \cup {CloseTag})
            = C35_Markup(C35_Segments(message, << >>))

(***************************************************************************)
(* Claim about the connection state and the current socket (SpecConn).     *)
(***************************************************************************)
\* every event raised so far has been delivered: no socket is between the
\* start of its closing handshake and its "close" event
C36_Delivered == \A s \in DOMAIN sockets : sockets[s] # "CLOSING"

\* C36 (as stated): under every interleaving of startSocket() calls, open
\* and close events of the current and of superseded sockets, and reconnect
\* timer firings, once every event raised has been delivered the state is
\* "Connected" exactly when the current socket is open.
C36_StateAgrees ==
    C36_Delivered =>
        (connectionState = "Connected"
            <=> (socket # 0 /\ sockets[socket] = "OPEN"))

(***************************************************************************)
(* Claim about the id of error envelopes (SpecServer).                     *)
(***************************************************************************)
\* C37 (as stated): for every well-formed frame with a recognized type and
\* an id, whatever its payload is (an absent payload on setEnvValue
\* included), every error envelope the server sends in reply carries that
\* id, and none of them is the "Invalid message format" reply of the frames
\* that fail to parse.
C37_ErrorCarriesId ==
    [][\A c \in DOMAIN conns : \A t \in typeMsgRequests \cap FrameTypes :
         \A i \in FrameIds : \A pl \in FramePayloads(t) :
           Message(c, Frame(t, i, pl)) =>
               \A k \in DOMAIN out' :
                   out'[k].env.type = "error" =>
                       /\ out'[k].env.id = i
                       /\ out'[k].env.payload.text
                              # "Invalid message format"]_vars

====
